---- MODULE Spec2Model ----
(***************************************************************************)
(* Synchronisation pipeline of the security dashboard API:                 *)
(*   services/sync.ts   - the four reconcilers, syncAll, createDailySnapshot*)
(*   jobs/sync-job.ts   - the cron callbacks, isSyncing, manualSync         *)
(*   routes/edr.ts      - PATCH /api/edr/alerts/:id                         *)
(*   routes/trends.ts   - POST /api/trends/snapshot                         *)
(*   config/risk-weights.ts - riskConfig, updateRiskWeights, getRiskLevel   *)
(*   routes/dashboard.ts - GET /api/dashboard, PUT /api/dashboard/weights   *)
(* Every `await` of the source is a step of the model: a run of a          *)
(* reconciler is a small process whose position is run.pc.                 *)
(***************************************************************************)
EXTENDS Integers, Sequences, FiniteSets, Bags, TLC

(***************************************************************************)
(* Bounds of the model.                                                    *)
(***************************************************************************)
MaxCalls == 2       \* invocations of sync functions in one behaviour
MaxFeed == 2        \* rows of one sheet
MaxPatches == 1     \* analyst edits in one behaviour
TicksPerDay == 2    \* clock readings in one calendar day
MaxFaults == 2      \* failed calls of the sheets and the database in one behaviour
MaxUpdates == 2     \* calls of updateRiskWeights in one behaviour
LongFeed == 201     \* rows of a sheet that takes more than two batches

VARIABLES
  kb4User,        \* table KB4User
  ncmDevice,      \* table NCMDevice
  edrAlert,       \* table EDRAlert
  hibpBreach,     \* table HIBPBreach
  syncLog,        \* table SyncLog, a bag of rows without their ids
  dailySnapshot,  \* table DailySnapshot
  nextId,         \* source of fresh row ids
  now,            \* the clock read by new Date() / Date.now()
  calls,          \* the invocations of sync functions, in order of start
  isSyncing,      \* sync-job.ts: let isSyncing
  lastSyncResult, \* sync-job.ts: let lastSyncResult (<<>> is null)
  lastSyncTime,   \* sync-job.ts: let lastSyncTime
  jobConsole,     \* the last line the scheduled sync wrote to the console
  signals,        \* the scopes passed to onSyncComplete, a bag
  patches,        \* number of analyst edits made
  fragile,        \* the dependencies that can fail in this deployment
  faults,         \* number of failed calls of a dependency so far
  riskConfig,     \* risk-weights.ts: export const riskConfig
  updates,        \* number of calls of updateRiskWeights made
  dashboard       \* the cache entry CacheKeys.DASHBOARD (<<>> when absent)

vars == <<kb4User, ncmDevice, edrAlert, hibpBreach, syncLog, dailySnapshot,
          nextId, now, calls, isSyncing, lastSyncResult, lastSyncTime,
          jobConsole, signals, patches, fragile, faults, riskConfig, updates,
          dashboard>>

tables == <<kb4User, ncmDevice, edrAlert, hibpBreach, dailySnapshot>>
jobState == <<isSyncing, lastSyncResult, lastSyncTime, jobConsole>>
outages == <<fragile, faults>>
config == <<riskConfig, updates>>

NULL == "null"

Sources == {"kb4", "ncm", "edr", "hibp"}

BATCH_SIZE == 100

SeqsUpTo(S, n) == UNION {[1..k -> S] : k \in 0..n}

\* JavaScript `x || null` on a string cell
OrNull(s) == IF s = "" THEN NULL ELSE s

\* JavaScript `x || d` on a string cell
OrDefault(s, d) == IF s = "" THEN d ELSE s

(***************************************************************************)
(* Dates.  A Date is the number of its instant, an invalid Date (time      *)
(* value NaN) is InvalidDate, and a null date column is NoDate.  Two       *)
(* different cell texts can denote one instant.                            *)
(***************************************************************************)
InvalidDate == -2

NoDate == -1

NewDate(str) ==
  CASE str = "2024-01-01T00:00:00Z" -> 1
    [] str = "2024-01-01" -> 1
    [] str = "2024-01-02" -> 2
    [] OTHER -> InvalidDate

\* Date.prototype.toISOString; throws RangeError on an invalid Date
ToISOStringThrows(d) == d = InvalidDate

ToISOString(d) ==
  CASE d = 1 -> "2024-01-01T00:00:00.000Z"
    [] d = 2 -> "2024-01-02T00:00:00.000Z"
    [] OTHER -> "RangeError"

(***************************************************************************)
(* Results and run states.                                                 *)
(***************************************************************************)
NoResult == [success |-> FALSE, count |-> 0, error |-> "pending"]

NoRun == [pc |-> "none", valid |-> <<>>, existingMap |-> {}, i |-> 0,
          count |-> 0, errorMsg |-> "", result |-> NoResult]

FreshRun == [NoRun EXCEPT !.pc = "fetch"]

Settled(r) == r.pc \in {"resolved", "rejected"}

\* what is left of a run once it has resolved or rejected
Finish(r, pc, res) ==
  [NoRun EXCEPT !.pc = pc, !.result = res]

CallIds == 1..Len(calls)

OpSources(op) == IF op = "all" THEN Sources ELSE {op} \cap Sources

\* the locals of a snapshot capture: its position, `today` and the row data
NoSnap == [pc |-> "none", today |-> NoDate, data |-> <<>>]

NewCall(op, trigger) ==
  [op |-> op, trigger |-> trigger, pc |-> "running",
   run |-> [s \in Sources |-> IF s \in OpSources(op) THEN FreshRun ELSE NoRun],
   snap |-> NoSnap]

SetRun(c, s, r) == calls' = [calls EXCEPT ![c].run[s] = r]

\* a single reconciler called through manualSync resolves or rejects with it
SettleCall(c, s, r) ==
  calls' = [calls EXCEPT ![c].run[s] = r,
                         ![c].pc = IF calls[c].op = "all" THEN @ ELSE r.pc]

(***************************************************************************)
(* Environment: the dependencies.  A call of googleSheetsService for a     *)
(* source, or of prisma, either answers or throws.                         *)
(***************************************************************************)
\* this call of the dependency throws
Fails(dep) ==
  /\ dep \in fragile
  /\ faults < MaxFaults
  /\ faults' = faults + 1

\* this call of the dependency answers
Works == faults' = faults

(***************************************************************************)
(* logSync and the two tails shared by the four reconcilers.               *)
(***************************************************************************)
logSync(source, status, recordCount, error) ==
  syncLog (+) SetToBag({[source |-> source, status |-> status,
                         recordCount |-> recordCount, error |-> error,
                         createdAt |-> now]})

\* the run leaves its try block with an exception
Caught(msg) == [NoRun EXCEPT !.pc = "catch", !.errorMsg = msg]

\* try: await logSync(src, 'success', count); onSyncComplete(src); return.
\* onSyncComplete deletes, among others, the cached dashboard
LogSuccess(c, s) ==
  /\ c \in CallIds
  /\ calls[c].run[s].pc = "log"
  /\ LET cnt == calls[c].run[s].count IN
     \/ /\ Works
        /\ syncLog' = logSync(s, "success", cnt, NULL)
        /\ signals' = signals (+) SetToBag({s})
        /\ dashboard' = <<>>
        /\ SettleCall(c, s, Finish(calls[c].run[s], "resolved",
               [success |-> TRUE, count |-> cnt, error |-> NULL]))
     \/ /\ Fails("db")
        /\ SetRun(c, s, Caught("db failed"))
        /\ UNCHANGED <<syncLog, signals, dashboard>>
  /\ UNCHANGED <<tables, nextId, now, jobState, patches, fragile, config>>

\* catch: await logSync(src, 'error', 0, errorMsg); return
LogError(c, s) ==
  /\ c \in CallIds
  /\ calls[c].run[s].pc = "catch"
  /\ LET msg == calls[c].run[s].errorMsg IN
     \/ /\ Works
        /\ syncLog' = logSync(s, "error", 0, msg)
        /\ SettleCall(c, s, Finish(calls[c].run[s], "resolved",
               [success |-> FALSE, count |-> 0, error |-> msg]))
     \/ /\ Fails("db")
        /\ SettleCall(c, s, Finish(calls[c].run[s], "rejected", NoResult))
        /\ UNCHANGED syncLog
  /\ UNCHANGED <<tables, nextId, now, jobState, signals, patches, fragile, config, dashboard>>

(***************************************************************************)
(* syncEDR.                                                                *)
(***************************************************************************)
EDRRawRows ==
  { [hostname |-> "h1", detectedAtStr |-> "2024-01-01T00:00:00Z",
     fileSha256 |-> "", vtVerdict |-> "", severity |-> ""],
    [hostname |-> "h1", detectedAtStr |-> "2024-01-01",
     fileSha256 |-> "", vtVerdict |-> "malicious", severity |-> "High"],
    [hostname |-> "h1", detectedAtStr |-> "2024-01-02",
     fileSha256 |-> "abc", vtVerdict |-> "clean", severity |-> "Low"],
    [hostname |-> "", detectedAtStr |-> "2024-01-01",
     fileSha256 |-> "abc", vtVerdict |-> "clean", severity |-> "Low"],
    [hostname |-> "h2", detectedAtStr |-> "yesterday",
     fileSha256 |-> "", vtVerdict |-> "", severity |-> "Low"] }

EDRWellDatedRows == {row \in EDRRawRows : NewDate(row.detectedAtStr) # InvalidDate}

\* the loop that fills `alerts`
EDRParseRow(row) ==
  [hostname |-> row.hostname,
   detectedAt |-> NewDate(row.detectedAtStr),
   fileSha256 |-> OrNull(row.fileSha256),
   severity |-> OrDefault(row.severity, "Low"),
   vtVerdict |-> OrNull(row.vtVerdict)]

EDRRowValid(row) == row.hostname # "" /\ row.detectedAtStr # ""

EDRParse(rawData) ==
  LET kept == SelectSeq(rawData, EDRRowValid)
  IN  [k \in 1..Len(kept) |-> EDRParseRow(kept[k])]

\* `${hostname}|${detectedAt.toISOString()}|${fileSha256 || ''}`
EDRKey(a) ==
  a.hostname \o "|" \o ToISOString(a.detectedAt) \o "|" \o
  (IF a.fileSha256 = NULL THEN "" ELSE a.fileSha256)

\* new Map(existingAlerts.map(...)): one id per key, the one of the row that
\* findMany (no orderBy) happens to return last
EDRExistingMaps ==
  LET keys == {EDRKey(a) : a \in edrAlert}
      ids == {a.id : a \in edrAlert}
  IN  { {<<k, m[k]>> : k \in keys} :
          m \in {f \in [keys -> ids] :
                   \A k \in keys : \E a \in edrAlert : a.id = f[k] /\ EDRKey(a) = k} }

MapHas(map, key) == \E e \in map : e[1] = key

MapGet(map, key) == (CHOOSE e \in map : e[1] = key)[2]

\* a re-sync that also resets the workflow status
EDRUpdateAlertResetsStatus(table, id, alert) ==
  {IF a.id = id THEN [a EXCEPT !.vtVerdict = alert.vtVerdict, !.syncedAt = now,
                               !.status = "new"]
   ELSE a : a \in table}

\* tx.eDRAlert.update({ where: { id }, data: { vtVerdict, syncedAt } })
EDRUpdateAlert(table, id, alert) ==
  {IF a.id = id THEN [a EXCEPT !.vtVerdict = alert.vtVerdict, !.syncedAt = now]
   ELSE a : a \in table}

\* tx.eDRAlert.create({ data: { ..., status: 'new', syncedAt } })
EDRCreateAlert(table, id, alert) ==
  table \cup {[id |-> id, hostname |-> alert.hostname,
               detectedAt |-> alert.detectedAt,
               fileSha256 |-> alert.fileSha256, severity |-> alert.severity,
               vtVerdict |-> alert.vtVerdict, status |-> "new",
               assignedTo |-> NULL, resolvedAt |-> NoDate, syncedAt |-> now]}

\* one pass of the loop of a batch transaction: update by the id of
\* existingMap, or create
EDRApplyAlert(alert, map, table, idc) ==
  IF ToISOStringThrows(alert.detectedAt)
  THEN [ok |-> FALSE, table |-> table, nextId |-> idc, error |-> "Invalid time value"]
  ELSE IF MapHas(map, EDRKey(alert))
  THEN LET id == MapGet(map, EDRKey(alert)) IN
       IF \E a \in table : a.id = id
       THEN [ok |-> TRUE, table |-> EDRUpdateAlert(table, id, alert),
             nextId |-> idc, error |-> ""]
       ELSE [ok |-> FALSE, table |-> table, nextId |-> idc, error |-> "record not found"]
  ELSE [ok |-> TRUE, table |-> EDRCreateAlert(table, idc, alert),
        nextId |-> idc + 1, error |-> ""]

\* the body of one batch transaction: for (const alert of batch) ..., up to
\* the first pass that throws; the passes of the first half of the batch,
\* then those of the second half
RECURSIVE EDRApplyBatch(_, _, _, _)
EDRApplyBatch(batch, map, table, idc) ==
  IF batch = <<>> THEN [ok |-> TRUE, table |-> table, nextId |-> idc, error |-> ""]
  ELSE IF Len(batch) = 1 THEN EDRApplyAlert(batch[1], map, table, idc)
  ELSE LET half == Len(batch) \div 2
           first == EDRApplyBatch(SubSeq(batch, 1, half), map, table, idc)
       IN  IF first.ok
           THEN EDRApplyBatch(SubSeq(batch, half + 1, Len(batch)), map,
                              first.table, first.nextId)
           ELSE first

Min(a, b) == IF a < b THEN a ELSE b

\* a slice that also takes the first item of the next one
SliceOneMore(items, i, batchSize) ==
  SubSeq(items, i + 1, Min(i + batchSize + 1, Len(items)))

\* items.slice(i, i + batchSize) of processBatch
Slice(items, i, batchSize) == SubSeq(items, i + 1, Min(i + batchSize, Len(items)))

\* after a batch: the next pass of the for loop of processBatch, or the log
AfterBatch(r, n) ==
  [r EXCEPT !.count = @ + n, !.i = @ + BATCH_SIZE,
            !.pc = IF r.i + BATCH_SIZE < Len(r.valid) THEN "batch" ELSE "log"]

\* await googleSheetsService.getEDRData(), then the parse loop
EDRFetch(c, sheets) ==
  /\ c \in CallIds
  /\ calls[c].run["edr"].pc = "fetch"
  /\ \/ Fails("edr") /\ SetRun(c, "edr", Caught("fetch failed"))
     \/ \E rawData \in sheets :
          Works /\
          SetRun(c, "edr", [calls[c].run["edr"] EXCEPT
                              !.pc = "find", !.valid = EDRParse(rawData)])
  /\ UNCHANGED <<tables, syncLog, nextId, now, jobState, signals, patches, fragile, config, dashboard>>

\* await prisma.eDRAlert.findMany(...), then existingMap
EDRFind(c) ==
  /\ c \in CallIds
  /\ calls[c].run["edr"].pc = "find"
  /\ \/ Fails("db") /\ SetRun(c, "edr", Caught("db failed"))
     \/ \E map \in EDRExistingMaps :
          Works /\
          SetRun(c, "edr", [calls[c].run["edr"] EXCEPT
              !.existingMap = map,
              !.pc = IF Len(calls[c].run["edr"].valid) = 0 THEN "log" ELSE "batch"])
  /\ UNCHANGED <<tables, syncLog, nextId, now, jobState, signals, patches, fragile, config, dashboard>>

\* one pass of processBatch: await prisma.$transaction(async tx => ...)
EDRBatch(c) ==
  /\ c \in CallIds
  /\ calls[c].run["edr"].pc = "batch"
  /\ LET r == calls[c].run["edr"]
         batch == Slice(r.valid, r.i, BATCH_SIZE)
         out == EDRApplyBatch(batch, r.existingMap, edrAlert, nextId)
     IN \/ /\ Fails("db")
           /\ SetRun(c, "edr", Caught("transaction failed"))
           /\ UNCHANGED <<edrAlert, nextId>>
        \/ /\ Works
           /\ out.ok
           /\ edrAlert' = out.table
           /\ nextId' = out.nextId
           /\ SetRun(c, "edr", AfterBatch(r, Len(batch)))
        \/ /\ Works
           /\ ~out.ok
           /\ SetRun(c, "edr", Caught(out.error))
           /\ UNCHANGED <<edrAlert, nextId>>
  /\ UNCHANGED <<kb4User, ncmDevice, hibpBreach, dailySnapshot, syncLog, now,
                 jobState, signals, patches, fragile, config, dashboard>>

(***************************************************************************)
(* PATCH /api/edr/alerts/:id                                               *)
(***************************************************************************)
\* request bodies accepted by updateStatusSchema (assignedTo "" is absent)
PatchBodies == { [status |-> "investigating", assignedTo |-> "ann"],
                 [status |-> "resolved", assignedTo |-> ""] }

PatchAlert(id, status, assignedTo) ==
  /\ patches < MaxPatches
  /\ \E a \in edrAlert : a.id = id
  /\ edrAlert' =
       {IF a.id = id
        THEN [a EXCEPT !.status = status,
                       !.assignedTo = IF assignedTo # "" THEN assignedTo ELSE @,
                       !.resolvedAt = IF status \in {"resolved", "false_positive"}
                                      THEN now ELSE @]
        ELSE a : a \in edrAlert}
  /\ patches' = patches + 1
  /\ UNCHANGED <<kb4User, ncmDevice, hibpBreach, dailySnapshot, syncLog, nextId,
                 now, calls, jobState, signals, outages, config, dashboard>>

(***************************************************************************)
(* Environment: a caller invokes manualSync[source].  The clock is read as *)
(* the number of invocations so far: a later call reads a later time.      *)
(***************************************************************************)
\* POST /api/sync?source=...: await manualSync[source]()
ManualSync(op) ==
  /\ Len(calls) < MaxCalls
  /\ calls' = Append(calls, NewCall(op, "manual"))
  /\ now' = now + 1
  /\ UNCHANGED <<tables, syncLog, nextId, jobState, signals, patches, outages, config, dashboard>>

\* no invocation is in flight
Quiet == \A c \in CallIds : calls[c].pc # "running"

\* the same entry point, called again once the previous call has returned
SyncInSuccession(op) == Quiet /\ ManualSync(op)

(***************************************************************************)
(* config/risk-weights.ts: the configuration as loaded with no RISK_*      *)
(* variable in the environment.  A number is a fraction [num, den].        *)
(***************************************************************************)
\* riskWeightsSchema defaults: 0.20, 0.35, 0.30, 0.15
DefaultWeights ==
  [kb4 |-> [num |-> 1, den |-> 5], ncm |-> [num |-> 7, den |-> 20],
   edr |-> [num |-> 3, den |-> 10], hibp |-> [num |-> 3, den |-> 20]]

\* riskThresholdsSchema defaults
DefaultThresholds ==
  [kb4HighRiskScore |-> 50, kb4HighPhishRate |-> 20,
   ncmCriticalCvss |-> 9, ncmHighCvss |-> 7,
   criticalScore |-> 80, highScore |-> 60, mediumScore |-> 40, lowScore |-> 20]

\* riskFactorsSchema defaults
DefaultFactors ==
  [kb4RiskPercentageMultiplier |-> 2, kb4AvgScoreWeight |-> 1,
   ncmCriticalPercentageMultiplier |-> 3, ncmCvssMultiplier |-> 8,
   edrPendingWeight |-> 1, edrHighSeverityWeight |-> 1,
   hibpPendingMultiplier |-> 10]

DefaultRiskConfig ==
  [weights |-> DefaultWeights, thresholds |-> DefaultThresholds,
   factors |-> DefaultFactors]

Start ==
  /\ kb4User = {} /\ ncmDevice = {} /\ edrAlert = {} /\ hibpBreach = {}
  /\ syncLog = EmptyBag /\ dailySnapshot = {}
  /\ nextId = 1 /\ now = 0
  /\ calls = <<>>
  /\ isSyncing = FALSE /\ lastSyncResult = <<>> /\ lastSyncTime = NoDate
  /\ jobConsole = ""
  /\ signals = EmptyBag /\ patches = 0
  /\ faults = 0
  /\ riskConfig = DefaultRiskConfig /\ updates = 0
  /\ dashboard = <<>>

(***************************************************************************)
(* The alert reconciler with the analysts' edits.                          *)
(***************************************************************************)
NextEDR ==
  \/ SyncInSuccession("edr")
  \/ \E c \in CallIds : EDRFetch(c, SeqsUpTo(EDRWellDatedRows, MaxFeed))
  \/ \E c \in CallIds : EDRFind(c)
  \/ \E c \in CallIds : EDRBatch(c)
  \/ \E c \in CallIds : LogSuccess(c, "edr")
  \/ \E c \in CallIds : LogError(c, "edr")
  \/ \E a \in edrAlert, body \in PatchBodies :
        PatchAlert(a.id, body.status, body.assignedTo)

InitEDR == Start /\ fragile = {"edr", "db"}

SpecEDR == InitEDR /\ [][NextEDR]_vars

(***************************************************************************)
(* syncKB4.                                                                *)
(***************************************************************************)
KB4RawRows ==
  { [user_id |-> "u1", email |-> "a@x.com", department |-> "IT",
     location |-> "TPE", status |-> "", current_risk_score |-> "75",
     phish_prone_percentage |-> "30", last_sign_in |-> ""],
    [user_id |-> "u1", email |-> "a2@x.com", department |-> "",
     location |-> "KHH", status |-> "archived", current_risk_score |-> "n/a",
     phish_prone_percentage |-> "", last_sign_in |-> "2024-01-01"],
    [user_id |-> "u2", email |-> "b@x.com", department |-> "HR",
     location |-> "", status |-> "active", current_risk_score |-> "30",
     phish_prone_percentage |-> "12", last_sign_in |-> "2024-01-02"],
    [user_id |-> "", email |-> "c@x.com", department |-> "HR",
     location |-> "", status |-> "active", current_risk_score |-> "30",
     phish_prone_percentage |-> "12", last_sign_in |-> ""],
    [user_id |-> "u3", email |-> "d@x.com", department |-> "HR",
     location |-> "", status |-> "active", current_risk_score |-> "30",
     phish_prone_percentage |-> "12", last_sign_in |-> "last week"] }

KB4WellDatedRows ==
  {row \in KB4RawRows : row.last_sign_in = "" \/ NewDate(row.last_sign_in) # InvalidDate}

\* parseFloat(cell) || 0
ParseFloatOr0(str) ==
  CASE str = "75" -> 75
    [] str = "30" -> 30
    [] str = "12" -> 12
    [] OTHER -> 0

\* cell ? new Date(cell) : null
DateOrNull(str) == IF str = "" THEN NoDate ELSE NewDate(str)

\* rawData.filter(row => row.user_id && row.email)
KB4RowValid(row) == row.user_id # "" /\ row.email # ""

\* the `update` object of the upsert
KB4UpdateData(u, row) ==
  [u EXCEPT !.email = row.email,
            !.department = OrNull(row.department),
            !.status = OrDefault(row.status, "active"),
            !.currentRiskScore = ParseFloatOr0(row.current_risk_score),
            !.phishPronePercentage = ParseFloatOr0(row.phish_prone_percentage),
            !.lastSignIn = DateOrNull(row.last_sign_in),
            !.syncedAt = now]

\* the `create` object of the upsert
KB4CreateData(id, row) ==
  [id |-> id, userId |-> row.user_id, email |-> row.email,
   department |-> OrNull(row.department),
   location |-> OrNull(row.location),
   status |-> OrDefault(row.status, "active"),
   currentRiskScore |-> ParseFloatOr0(row.current_risk_score),
   phishPronePercentage |-> ParseFloatOr0(row.phish_prone_percentage),
   lastSignIn |-> DateOrNull(row.last_sign_in),
   syncedAt |-> now]

\* an upsert that, like the device reconciler, drops the users it is not given
KB4UpsertDropsOthers(table, id, row) ==
  IF \E u \in table : u.userId = row.user_id
  THEN {KB4UpdateData(u, row) : u \in {w \in table : w.userId = row.user_id}}
  ELSE {KB4CreateData(id, row)}

\* an upsert that inserts without looking for the user id
KB4UpsertAlwaysCreates(table, id, row) == table \cup {KB4CreateData(id, row)}

\* prisma.kB4User.upsert({ where: { userId }, create, update })
KB4Upsert(table, id, row) ==
  IF \E u \in table : u.userId = row.user_id
  THEN {IF u.userId = row.user_id THEN KB4UpdateData(u, row) ELSE u : u \in table}
  ELSE table \cup {KB4CreateData(id, row)}

\* the id generator moves on when the upsert has inserted a row
IdAfter(before, after, idc) ==
  IF Cardinality(after) > Cardinality(before) THEN idc + 1 ELSE idc

\* one upsert of the transaction; the client refuses an invalid Date
KB4ApplyRow(row, table, idc) ==
  IF DateOrNull(row.last_sign_in) = InvalidDate
  THEN [ok |-> FALSE, table |-> table, nextId |-> idc, error |-> "Invalid value"]
  ELSE LET after == KB4Upsert(table, idc, row)
       IN  [ok |-> TRUE, table |-> after, nextId |-> IdAfter(table, after, idc),
            error |-> ""]

\* prisma.$transaction(batch.map(row => upsert)): the upserts in order, up to
\* the first one that is refused; those of the first half of the batch, then
\* those of the second half
RECURSIVE KB4ApplyBatch(_, _, _)
KB4ApplyBatch(batch, table, idc) ==
  IF batch = <<>> THEN [ok |-> TRUE, table |-> table, nextId |-> idc, error |-> ""]
  ELSE IF Len(batch) = 1 THEN KB4ApplyRow(batch[1], table, idc)
  ELSE LET half == Len(batch) \div 2
           first == KB4ApplyBatch(SubSeq(batch, 1, half), table, idc)
       IN  IF first.ok
           THEN KB4ApplyBatch(SubSeq(batch, half + 1, Len(batch)),
                              first.table, first.nextId)
           ELSE first

\* where a run goes once its valid rows are known
BatchOrLog(r, valid) ==
  [r EXCEPT !.valid = valid, !.pc = IF Len(valid) = 0 THEN "log" ELSE "batch"]

\* await googleSheetsService.getKB4Data(), then the filter
KB4Fetch(c, sheets) ==
  /\ c \in CallIds
  /\ calls[c].run["kb4"].pc = "fetch"
  /\ \/ Fails("kb4") /\ SetRun(c, "kb4", Caught("fetch failed"))
     \/ \E rawData \in sheets :
          Works /\
          SetRun(c, "kb4", BatchOrLog(calls[c].run["kb4"],
                                      SelectSeq(rawData, KB4RowValid)))
  /\ UNCHANGED <<tables, syncLog, nextId, now, jobState, signals, patches, fragile, config, dashboard>>

\* one pass of processBatch: await prisma.$transaction([...upserts])
KB4Batch(c) ==
  /\ c \in CallIds
  /\ calls[c].run["kb4"].pc = "batch"
  /\ LET r == calls[c].run["kb4"]
         batch == Slice(r.valid, r.i, BATCH_SIZE)
         out == KB4ApplyBatch(batch, kb4User, nextId)
     IN \/ /\ Fails("db")
           /\ SetRun(c, "kb4", Caught("transaction failed"))
           /\ UNCHANGED <<kb4User, nextId>>
        \/ /\ Works
           /\ out.ok
           /\ kb4User' = out.table
           /\ nextId' = out.nextId
           /\ SetRun(c, "kb4", AfterBatch(r, Len(batch)))
        \/ /\ Works
           /\ ~out.ok
           /\ SetRun(c, "kb4", Caught(out.error))
           /\ UNCHANGED <<kb4User, nextId>>
  /\ UNCHANGED <<ncmDevice, edrAlert, hibpBreach, dailySnapshot, syncLog, now,
                 jobState, signals, patches, fragile, config, dashboard>>

(***************************************************************************)
(* syncHIBP.                                                               *)
(***************************************************************************)
HIBPRawRows ==
  { [Email |-> "a@x.com", BreachName |-> "Adobe", Domain |-> "x.com",
     Alias |-> "", BreachDate |-> "2024-01-01", Timestamp |-> "2024-01-02"],
    [Email |-> "a@x.com", BreachName |-> "Adobe", Domain |-> "y.com",
     Alias |-> "al", BreachDate |-> "", Timestamp |-> ""],
    [Email |-> "a@x.com", BreachName |-> "Canva", Domain |-> "",
     Alias |-> "", BreachDate |-> "2024-01-02", Timestamp |-> "2024-01-01"],
    [Email |-> "a@x.com", BreachName |-> "", Domain |-> "x.com",
     Alias |-> "", BreachDate |-> "", Timestamp |-> ""],
    [Email |-> "b@x.com", BreachName |-> "Adobe", Domain |-> "x.com",
     Alias |-> "", BreachDate |-> "in May", Timestamp |-> ""] }

HIBPWellDatedRows ==
  {row \in HIBPRawRows : row.BreachDate = "" \/ NewDate(row.BreachDate) # InvalidDate}

\* rawData.filter(row => row.Email && row.BreachName)
HIBPRowValid(row) == row.Email # "" /\ row.BreachName # ""

\* the `create` object of the upsert
HIBPCreateData(id, row) ==
  [id |-> id, email |-> row.Email, breachName |-> row.BreachName,
   domain |-> row.Domain, alias |-> OrNull(row.Alias),
   breachDate |-> DateOrNull(row.BreachDate),
   discoveredAt |-> IF row.Timestamp # "" THEN NewDate(row.Timestamp) ELSE now,
   status |-> "new", syncedAt |-> now]

\* an upsert whose update also takes the feed's domain and resets the status
HIBPUpsertOverwrites(table, id, row) ==
  IF \E b \in table : b.email = row.Email /\ b.breachName = row.BreachName
  THEN {IF b.email = row.Email /\ b.breachName = row.BreachName
        THEN [b EXCEPT !.syncedAt = now, !.domain = row.Domain, !.status = "new"]
        ELSE b : b \in table}
  ELSE table \cup {HIBPCreateData(id, row)}

\* prisma.hIBPBreach.upsert({ where: { email_breachName }, create, update })
HIBPUpsert(table, id, row) ==
  IF \E b \in table : b.email = row.Email /\ b.breachName = row.BreachName
  THEN {IF b.email = row.Email /\ b.breachName = row.BreachName
        THEN [b EXCEPT !.syncedAt = now]
        ELSE b : b \in table}
  ELSE table \cup {HIBPCreateData(id, row)}

\* one upsert of the transaction; the client refuses an invalid Date
HIBPApplyRow(row, table, idc) ==
  IF InvalidDate \in {DateOrNull(row.BreachDate), DateOrNull(row.Timestamp)}
  THEN [ok |-> FALSE, table |-> table, nextId |-> idc, error |-> "Invalid value"]
  ELSE LET after == HIBPUpsert(table, idc, row)
       IN  [ok |-> TRUE, table |-> after, nextId |-> IdAfter(table, after, idc),
            error |-> ""]

\* prisma.$transaction(batch.map(row => upsert)): the upserts in order, up to
\* the first one that is refused
RECURSIVE HIBPApplyBatch(_, _, _)
HIBPApplyBatch(batch, table, idc) ==
  IF batch = <<>> THEN [ok |-> TRUE, table |-> table, nextId |-> idc, error |-> ""]
  ELSE IF Len(batch) = 1 THEN HIBPApplyRow(batch[1], table, idc)
  ELSE LET half == Len(batch) \div 2
           first == HIBPApplyBatch(SubSeq(batch, 1, half), table, idc)
       IN  IF first.ok
           THEN HIBPApplyBatch(SubSeq(batch, half + 1, Len(batch)),
                               first.table, first.nextId)
           ELSE first

\* await googleSheetsService.getHIBPData(), then the filter
HIBPFetch(c, sheets) ==
  /\ c \in CallIds
  /\ calls[c].run["hibp"].pc = "fetch"
  /\ \/ Fails("hibp") /\ SetRun(c, "hibp", Caught("fetch failed"))
     \/ \E rawData \in sheets :
          Works /\
          SetRun(c, "hibp", BatchOrLog(calls[c].run["hibp"],
                                       SelectSeq(rawData, HIBPRowValid)))
  /\ UNCHANGED <<tables, syncLog, nextId, now, jobState, signals, patches, fragile, config, dashboard>>

\* one pass of processBatch: await prisma.$transaction([...upserts])
HIBPBatch(c) ==
  /\ c \in CallIds
  /\ calls[c].run["hibp"].pc = "batch"
  /\ LET r == calls[c].run["hibp"]
         batch == Slice(r.valid, r.i, BATCH_SIZE)
         out == HIBPApplyBatch(batch, hibpBreach, nextId)
     IN \/ /\ Fails("db")
           /\ SetRun(c, "hibp", Caught("transaction failed"))
           /\ UNCHANGED <<hibpBreach, nextId>>
        \/ /\ Works
           /\ out.ok
           /\ hibpBreach' = out.table
           /\ nextId' = out.nextId
           /\ SetRun(c, "hibp", AfterBatch(r, Len(batch)))
        \/ /\ Works
           /\ ~out.ok
           /\ SetRun(c, "hibp", Caught(out.error))
           /\ UNCHANGED <<hibpBreach, nextId>>
  /\ UNCHANGED <<kb4User, ncmDevice, edrAlert, dailySnapshot, syncLog, now,
                 jobState, signals, patches, fragile, config, dashboard>>

\* the analyst's status edit: api.patch(`/hibp/breaches/${id}`, { status })
UpdateHIBPStatus(id, status) ==
  /\ patches < MaxPatches
  /\ \E b \in hibpBreach : b.id = id
  /\ hibpBreach' = {IF b.id = id THEN [b EXCEPT !.status = status] ELSE b :
                      b \in hibpBreach}
  /\ patches' = patches + 1
  /\ UNCHANGED <<kb4User, ncmDevice, edrAlert, dailySnapshot, syncLog, nextId,
                 now, calls, jobState, signals, outages, config, dashboard>>

(***************************************************************************)
(* The two upsert reconcilers, run one after the other in any order.       *)
(***************************************************************************)
NextUpsert ==
  \/ SyncInSuccession("kb4")
  \/ SyncInSuccession("hibp")
  \/ \E c \in CallIds : KB4Fetch(c, SeqsUpTo(KB4WellDatedRows, MaxFeed))
  \/ \E c \in CallIds : KB4Batch(c)
  \/ \E c \in CallIds : HIBPFetch(c, SeqsUpTo(HIBPWellDatedRows, MaxFeed))
  \/ \E c \in CallIds : HIBPBatch(c)
  \/ \E c \in CallIds, s \in {"kb4", "hibp"} : LogSuccess(c, s)
  \/ \E c \in CallIds, s \in {"kb4", "hibp"} : LogError(c, s)
  \/ \E b \in hibpBreach : UpdateHIBPStatus(b.id, "notified")

InitUpsert == Start /\ fragile = {"kb4", "hibp", "db"}

SpecUpsert == InitUpsert /\ [][NextUpsert]_vars

(***************************************************************************)
(* The user and alert reconcilers on sheets as they come, cells that are   *)
(* no dates included, with every dependency answering.                     *)
(***************************************************************************)
NextRawFeeds ==
  \/ SyncInSuccession("kb4")
  \/ SyncInSuccession("edr")
  \/ \E c \in CallIds : KB4Fetch(c, SeqsUpTo(KB4RawRows, MaxFeed))
  \/ \E c \in CallIds : KB4Batch(c)
  \/ \E c \in CallIds : EDRFetch(c, SeqsUpTo(EDRRawRows, MaxFeed))
  \/ \E c \in CallIds : EDRFind(c)
  \/ \E c \in CallIds : EDRBatch(c)
  \/ \E c \in CallIds, s \in {"kb4", "edr"} : LogSuccess(c, s)
  \/ \E c \in CallIds, s \in {"kb4", "edr"} : LogError(c, s)

InitRawFeeds == Start /\ fragile = {}

SpecRawFeeds == InitRawFeeds /\ [][NextRawFeeds]_vars

(***************************************************************************)
(* The three batching reconcilers on sheets of more than two batches; the  *)
(* database is unreliable.                                                 *)
(***************************************************************************)
\* a sheet of LongFeed rows: first, second and last take the first BATCH_SIZE
\* rows, the next BATCH_SIZE rows and the rest
LongSheet(first, second, last) ==
  [k \in 1..LongFeed |->
     IF k <= BATCH_SIZE THEN first
     ELSE IF k <= 2 * BATCH_SIZE THEN second ELSE last]

KB4LongSheet ==
  LongSheet(CHOOSE row \in KB4RawRows : row.email = "a@x.com",
            CHOOSE row \in KB4RawRows : row.user_id = "u2",
            CHOOSE row \in KB4RawRows : row.email = "a2@x.com")

EDRLongSheet ==
  LET row == CHOOSE row \in EDRRawRows : row.severity = "High"
  IN  LongSheet(row, row, row)

HIBPLongSheet ==
  LongSheet(CHOOSE row \in HIBPRawRows : row.Domain = "x.com" /\ row.BreachName = "Adobe",
            CHOOSE row \in HIBPRawRows : row.BreachName = "Canva",
            CHOOSE row \in HIBPRawRows : row.Domain = "y.com")

NextBatches ==
  \/ \E op \in {"kb4", "edr", "hibp"} : SyncInSuccession(op)
  \/ \E c \in CallIds : KB4Fetch(c, {KB4LongSheet})
  \/ \E c \in CallIds : KB4Batch(c)
  \/ \E c \in CallIds : EDRFetch(c, {EDRLongSheet})
  \/ \E c \in CallIds : EDRFind(c)
  \/ \E c \in CallIds : EDRBatch(c)
  \/ \E c \in CallIds : HIBPFetch(c, {HIBPLongSheet})
  \/ \E c \in CallIds : HIBPBatch(c)
  \/ \E c \in CallIds, s \in {"kb4", "edr", "hibp"} : LogSuccess(c, s)
  \/ \E c \in CallIds, s \in {"kb4", "edr", "hibp"} : LogError(c, s)

InitBatches == Start /\ fragile = {"db"}

SpecBatches == InitBatches /\ [][NextBatches]_vars

(***************************************************************************)
(* syncNCM.                                                                *)
(***************************************************************************)
NCMRawRows ==
  { [AllDeviceNames |-> "r1; r2", AllDeviceIPs |-> "r1(10.0.0.1); r2(10.0.0.2)",
     UpdatePriority |-> "P0-Immediate", TotalCVEInstances |-> "12",
     MaxCVSS |-> "9.8"],
    [AllDeviceNames |-> "r1", AllDeviceIPs |-> "",
     UpdatePriority |-> "", TotalCVEInstances |-> "n/a", MaxCVSS |-> ""],
    [AllDeviceNames |-> "r1;  ", AllDeviceIPs |-> "r1(10.0.0.1)",
     UpdatePriority |-> "P1-NextCycle", TotalCVEInstances |-> "3",
     MaxCVSS |-> "7.5"],
    [AllDeviceNames |-> "", AllDeviceIPs |-> "r2(10.0.0.2)",
     UpdatePriority |-> "P0-Immediate", TotalCVEInstances |-> "3",
     MaxCVSS |-> "9.8"] }

\* String.prototype.split('; ')
SplitSemi(str) ==
  CASE str = "r1; r2" -> <<"r1", "r2">>
    [] str = "r1;  " -> <<"r1", " ">>
    [] str = " ; r2" -> <<" ", "r2">>
    [] str = "r1(10.0.0.1); r2(10.0.0.2)" -> <<"r1(10.0.0.1)", "r2(10.0.0.2)">>
    [] OTHER -> <<str>>

\* String.prototype.trim
Trim(str) == IF str = " " THEN "" ELSE str

\* deviceIps[i]?.match(/\(([^)]+)\)/), then ipMatch ? ipMatch[1] : null
MatchIp(entries, i) ==
  IF i > Len(entries) THEN NULL
  ELSE CASE entries[i] = "r1(10.0.0.1)" -> "10.0.0.1"
         [] entries[i] = "r2(10.0.0.2)" -> "10.0.0.2"
         [] OTHER -> NULL

\* parseInt(cell) || 0
ParseIntOr0(str) ==
  CASE str = "12" -> 12
    [] str = "3" -> 3
    [] OTHER -> 0

\* parseFloat(cell) || 0 of a cell with decimals
ParseDecimalOr0(str) ==
  CASE str = "9.8" -> [num |-> 49, den |-> 5]
    [] str = "7.5" -> [num |-> 15, den |-> 2]
    [] OTHER -> [num |-> 0, den |-> 1]

\* the inner loop reading the first IP entry for every device of the row
RECURSIVE NCMRowDevicesFirstIp(_, _, _, _)
NCMRowDevicesFirstIp(row, deviceNames, deviceIps, i) ==
  IF i > Len(deviceNames) THEN <<>>
  ELSE LET deviceName == Trim(deviceNames[i])
           rest == NCMRowDevicesFirstIp(row, deviceNames, deviceIps, i + 1)
       IN IF deviceName = "" THEN rest
          ELSE <<[deviceName |-> deviceName,
                  deviceIp |-> MatchIp(deviceIps, 1),
                  updatePriority |-> OrDefault(row.UpdatePriority, "P3-Monitor"),
                  totalCveInstances |-> ParseIntOr0(row.TotalCVEInstances),
                  maxCvss |-> ParseDecimalOr0(row.MaxCVSS)]>>
               \o rest

\* the inner loop over deviceNames of one row
RECURSIVE NCMRowDevices(_, _, _, _)
NCMRowDevices(row, deviceNames, deviceIps, i) ==
  IF i > Len(deviceNames) THEN <<>>
  ELSE LET deviceName == Trim(deviceNames[i])
           rest == NCMRowDevices(row, deviceNames, deviceIps, i + 1)
       IN IF deviceName = "" THEN rest
          ELSE <<[deviceName |-> deviceName,
                  deviceIp |-> MatchIp(deviceIps, i),
                  updatePriority |-> OrDefault(row.UpdatePriority, "P3-Monitor"),
                  totalCveInstances |-> ParseIntOr0(row.TotalCVEInstances),
                  maxCvss |-> ParseDecimalOr0(row.MaxCVSS)]>>
               \o rest

\* the outer loop that fills `devices`
RECURSIVE NCMParse(_)
NCMParse(rawData) ==
  IF rawData = <<>> THEN <<>>
  ELSE LET row == Head(rawData) IN
       IF row.AllDeviceNames = "" THEN NCMParse(Tail(rawData))
       ELSE NCMRowDevices(row, SplitSemi(row.AllDeviceNames),
                          SplitSemi(row.AllDeviceIPs), 1)
            \o NCMParse(Tail(rawData))

\* `${d.deviceName}|${d.deviceIp || ''}`
NCMKey(d) == d.deviceName \o "|" \o (IF d.deviceIp = NULL THEN "" ELSE d.deviceIp)

\* new Map(existingDevices.map(...)): one id per key, the one of the row that
\* findMany (no orderBy) happens to return last
NCMExistingMaps ==
  LET keys == {NCMKey(d) : d \in ncmDevice}
      ids == {d.id : d \in ncmDevice}
  IN  { {<<k, m[k]>> : k \in keys} :
          m \in {f \in [keys -> ids] :
                   \A k \in keys : \E d \in ncmDevice : d.id = f[k] /\ NCMKey(d) = k} }

\* tx.nCMDevice.deleteMany({ where: { id: { in: idsToDelete } } })
NCMDeleteAbsent(table, devices) ==
  {d \in table : NCMKey(d) \in {NCMKey(devices[k]) : k \in 1..Len(devices)}}

\* tx.nCMDevice.update({ where: { id }, data: { ...device, syncedAt } })
NCMUpdateDevice(table, id, device) ==
  {IF d.id = id
   THEN [id |-> id, deviceName |-> device.deviceName, deviceIp |-> device.deviceIp,
         updatePriority |-> device.updatePriority,
         totalCveInstances |-> device.totalCveInstances,
         maxCvss |-> device.maxCvss, syncedAt |-> now]
   ELSE d : d \in table}

\* tx.nCMDevice.create({ data: { ...device, syncedAt } })
NCMCreateDevice(table, id, device) ==
  table \cup {[id |-> id, deviceName |-> device.deviceName,
               deviceIp |-> device.deviceIp,
               updatePriority |-> device.updatePriority,
               totalCveInstances |-> device.totalCveInstances,
               maxCvss |-> device.maxCvss, syncedAt |-> now]}

\* for (const device of devices): update by the id of existingMap, or create
RECURSIVE NCMUpsertAll(_, _, _, _)
NCMUpsertAll(devices, map, table, idc) ==
  IF devices = <<>> THEN [ok |-> TRUE, table |-> table, nextId |-> idc]
  ELSE LET device == Head(devices) IN
    IF MapHas(map, NCMKey(device))
    THEN LET id == MapGet(map, NCMKey(device)) IN
         IF \E d \in table : d.id = id
         THEN NCMUpsertAll(Tail(devices), map, NCMUpdateDevice(table, id, device), idc)
         ELSE [ok |-> FALSE, table |-> table, nextId |-> idc]
    ELSE NCMUpsertAll(Tail(devices), map, NCMCreateDevice(table, idc, device), idc + 1)

\* await googleSheetsService.getNCMData(), then the parse loops
NCMFetch(c, sheets) ==
  /\ c \in CallIds
  /\ calls[c].run["ncm"].pc = "fetch"
  /\ \/ Fails("ncm") /\ SetRun(c, "ncm", Caught("fetch failed"))
     \/ \E rawData \in sheets :
          Works /\
          SetRun(c, "ncm", [calls[c].run["ncm"] EXCEPT
                              !.pc = "tx", !.valid = NCMParse(rawData)])
  /\ UNCHANGED <<tables, syncLog, nextId, now, jobState, signals, patches, fragile, config, dashboard>>

\* await prisma.$transaction(async tx => { findMany; deleteMany; upserts })
NCMTransaction(c) ==
  /\ c \in CallIds
  /\ calls[c].run["ncm"].pc = "tx"
  /\ LET r == calls[c].run["ncm"] IN
     \/ /\ Fails("db")
        /\ SetRun(c, "ncm", Caught("transaction failed"))
        /\ UNCHANGED <<ncmDevice, nextId>>
     \/ \E map \in NCMExistingMaps :
          Works /\
          LET out == NCMUpsertAll(r.valid, map,
                                  NCMDeleteAbsent(ncmDevice, r.valid), nextId)
          IN IF out.ok
             THEN /\ ncmDevice' = out.table
                  /\ nextId' = out.nextId
                  /\ SetRun(c, "ncm", [r EXCEPT !.pc = "log", !.existingMap = map,
                                                !.count = Len(r.valid)])
             ELSE /\ SetRun(c, "ncm", Caught("record not found"))
                  /\ UNCHANGED <<ncmDevice, nextId>>
  /\ UNCHANGED <<kb4User, edrAlert, hibpBreach, dailySnapshot, syncLog, now,
                 jobState, signals, patches, fragile, config, dashboard>>

(***************************************************************************)
(* The device reconciler, run again and again on changing sheets.          *)
(***************************************************************************)
NextNCM ==
  \/ SyncInSuccession("ncm")
  \/ \E c \in CallIds : NCMFetch(c, SeqsUpTo(NCMRawRows, MaxFeed))
  \/ \E c \in CallIds : NCMTransaction(c)
  \/ \E c \in CallIds : LogSuccess(c, "ncm")
  \/ \E c \in CallIds : LogError(c, "ncm")

InitNCM == Start /\ fragile = {"ncm", "db"}

SpecNCM == InitNCM /\ [][NextNCM]_vars

(***************************************************************************)
(* The device reconciler on sheets of one row, among them rows with fewer  *)
(* IP entries than names and with an empty name before a device.           *)
(***************************************************************************)
NCMShortRows ==
  { [AllDeviceNames |-> "r1; r2", AllDeviceIPs |-> "r1(10.0.0.1)",
     UpdatePriority |-> "", TotalCVEInstances |-> "3", MaxCVSS |-> "7.5"],
    [AllDeviceNames |-> " ; r2", AllDeviceIPs |-> "r1(10.0.0.1); r2(10.0.0.2)",
     UpdatePriority |-> "P1-NextCycle", TotalCVEInstances |-> "12",
     MaxCVSS |-> "9.8"] }

OneRowSheets == {<<row>> : row \in NCMRawRows \cup NCMShortRows}

NextFanOut ==
  \/ SyncInSuccession("ncm")
  \/ \E c \in CallIds : NCMFetch(c, OneRowSheets)
  \/ \E c \in CallIds : NCMTransaction(c)
  \/ \E c \in CallIds : LogSuccess(c, "ncm")
  \/ \E c \in CallIds : LogError(c, "ncm")

InitFanOut == Start /\ fragile = {"ncm"}

SpecFanOut == InitFanOut /\ [][NextFanOut]_vars

(***************************************************************************)
(* Numbers.  A JavaScript number is modelled exactly, as a fraction        *)
(* [num, den] in lowest terms with den > 0; den = 0 marks the values that  *)
(* are not finite: Infinity is 1/0, -Infinity is -1/0 and NaN is 0/0.      *)
(* A value that is a string is [num |-> 0, den |-> -1].                    *)
(***************************************************************************)
RECURSIVE GCD(_, _)
GCD(a, b) == IF b = 0 THEN a ELSE GCD(b, a % b)

Abs(n) == IF n < 0 THEN -n ELSE n

Sign(n) == IF n > 0 THEN 1 ELSE IF n < 0 THEN -1 ELSE 0

\* the number n / d
Rat(n, d) ==
  IF d = 0 THEN [num |-> Sign(n), den |-> 0]
  ELSE LET g == GCD(Abs(n), Abs(d))
       IN  [num |-> Sign(d) * (n \div g), den |-> Abs(d) \div g]

RatInt(n) == [num |-> n, den |-> 1]

NaN == [num |-> 0, den |-> 0]

\* a value of type string that is no numeral, such as "abc"
Text == [num |-> 0, den |-> -1]

IsFinite(a) == a.den > 0

\* a + b: a string operand makes it a concatenation, which is a string
RatAdd(a, b) ==
  IF a = Text \/ b = Text THEN Text
  ELSE IF IsFinite(a) /\ IsFinite(b)
  THEN Rat(a.num * b.den + b.num * a.den, a.den * b.den)
  ELSE IF ~IsFinite(a) /\ ~IsFinite(b) THEN (IF a = b THEN a ELSE NaN)
  ELSE IF IsFinite(a) THEN b ELSE a

\* a * b: a string that is no numeral converts to NaN
RatMul(a, b) ==
  IF a = Text \/ b = Text THEN NaN
  ELSE Rat(a.num * b.num, a.den * b.den)

\* a / b
RatQuot(a, b) ==
  IF a = Text \/ b = Text THEN NaN
  ELSE IF IsFinite(b) /\ b.num < 0
  THEN Rat(-(a.num * b.den), a.den * (-b.num))
  ELSE Rat(a.num * b.den, a.den * b.num)

RatScale(k, a) == Rat(k * a.num, a.den)

RatDiv(a, k) == Rat(a.num, a.den * k)

\* Math.min(100, x)
MathMin100(a) == IF a.num >= 100 * a.den THEN RatInt(100) ELSE a

\* Math.round(x) of a finite x: floor(x + 0.5)
MathRound(a) == (2 * a.num + a.den) \div (2 * a.den)

\* Math.max(n, 1)
MathMax1(n) == IF n < 1 THEN 1 ELSE n

RECURSIVE SumField(_, _)
SumField(S, f) ==
  IF S = {} THEN 0
  ELSE LET x == CHOOSE y \in S : TRUE IN x[f] + SumField(S \ {x}, f)

\* aggregate({ _avg }) followed by `|| 0`
AvgOr0(S, f) == IF S = {} THEN RatInt(0) ELSE Rat(SumField(S, f), Cardinality(S))

(***************************************************************************)
(* createDailySnapshot and its helpers (sync.ts).                          *)
(***************************************************************************)
\* today.setHours(0, 0, 0, 0)
SetHoursZero(t) == t - (t % TicksPerDay)

ActiveUsers == {u \in kb4User : u.status = "active"}

getKB4SnapshotData ==
  [kb4TotalUsers |-> Cardinality(ActiveUsers),
   kb4HighRiskUsers |-> Cardinality({u \in ActiveUsers :
        u.currentRiskScore >= 50 \/ u.phishPronePercentage >= 20}),
   kb4AvgRiskScore |-> AvgOr0(ActiveUsers, "currentRiskScore"),
   kb4AvgPhishProneRate |-> AvgOr0(ActiveUsers, "phishPronePercentage")]

getNCMSnapshotData ==
  [ncmTotalDevices |-> Cardinality(ncmDevice),
   ncmP0Devices |-> Cardinality({d \in ncmDevice : d.updatePriority = "P0-Immediate"}),
   ncmP1Devices |-> Cardinality({d \in ncmDevice : d.updatePriority = "P1-NextCycle"}),
   ncmTotalCves |-> SumField(ncmDevice, "totalCveInstances")]

getEDRSnapshotData ==
  [edrTotalAlerts |-> Cardinality(edrAlert),
   edrHighAlerts |-> Cardinality({a \in edrAlert : a.severity \in {"Critical", "High"}}),
   edrPendingAlerts |-> Cardinality({a \in edrAlert : a.status \in {"new", "investigating"}}),
   edrResolvedAlerts |-> Cardinality({a \in edrAlert : a.status = "resolved"})]

\* new breaches: discovered within the last 24 hours
getHIBPSnapshotData ==
  [hibpTotalBreaches |-> Cardinality(hibpBreach),
   hibpNewBreaches |-> Cardinality({b \in hibpBreach : b.discoveredAt >= now - TicksPerDay}),
   hibpPendingBreaches |-> Cardinality({b \in hibpBreach : b.status = "new"})]

\* weights { kb4: 0.2, ncm: 0.35, edr: 0.3, hibp: 0.15 }, in hundredths
WeightedRound(kb4Score, ncmScore, edrScore, hibpScore) ==
  MathRound(RatDiv(RatAdd(RatAdd(RatScale(20, kb4Score), RatScale(35, ncmScore)),
                          RatAdd(RatScale(30, edrScore), RatScale(15, hibpScore))),
                   100))

calculateSnapshotRiskScore(kb4, ncm, edr, hibp) ==
  LET kb4Score == IF kb4.kb4TotalUsers > 0
                  THEN MathMin100(RatAdd(Rat(200 * kb4.kb4HighRiskUsers, kb4.kb4TotalUsers),
                                         kb4.kb4AvgRiskScore))
                  ELSE RatInt(0)
      ncmScore == IF ncm.ncmTotalDevices > 0
                  THEN MathMin100(Rat(300 * ncm.ncmP0Devices, ncm.ncmTotalDevices))
                  ELSE RatInt(0)
      edrScore == IF edr.edrTotalAlerts > 0
                  THEN MathMin100(RatAdd(Rat(100 * edr.edrPendingAlerts, edr.edrTotalAlerts),
                                         Rat(100 * edr.edrHighAlerts, edr.edrTotalAlerts)))
                  ELSE RatInt(0)
      hibpScore == MathMin100(RatInt(10 * hibp.hibpPendingBreaches))
  IN  WeightedRound(kb4Score, ncmScore, edrScore, hibpScore)

\* the `data` of prisma.dailySnapshot.create, without the date
SnapshotData ==
  [kb4 |-> getKB4SnapshotData, ncm |-> getNCMSnapshotData,
   edr |-> getEDRSnapshotData, hibp |-> getHIBPSnapshotData,
   overallRiskScore |-> calculateSnapshotRiskScore(getKB4SnapshotData,
        getNCMSnapshotData, getEDRSnapshotData, getHIBPSnapshotData)]

SetSnap(c, sn) == calls' = [calls EXCEPT ![c].snap = sn]

SettleSnap(c, pc) == calls' = [calls EXCEPT ![c].snap.pc = pc, ![c].pc = pc]

\* manualSync.snapshot() or the 00:05 cron callback: createDailySnapshot()
\* runs up to its first await, prisma.dailySnapshot.findUnique
StartSnapshot(trigger) ==
  /\ Len(calls) < MaxCalls
  /\ now' = now + 1
  /\ calls' = Append(calls, [NewCall("snapshot", trigger) EXCEPT
                 !.snap = [pc |-> "find", today |-> SetHoursZero(now'), data |-> <<>>]])
  /\ UNCHANGED <<tables, syncLog, nextId, jobState, signals, patches, outages, config, dashboard>>

\* findUnique answers: return when a row of today exists, else collect
SnapshotFind(c) ==
  /\ c \in CallIds
  /\ calls[c].op = "snapshot" /\ calls[c].snap.pc = "find"
  /\ IF \E row \in dailySnapshot : row.date = calls[c].snap.today
     THEN SettleSnap(c, "resolved")
     ELSE SetSnap(c, [calls[c].snap EXCEPT !.pc = "collect"])
  /\ UNCHANGED <<tables, syncLog, nextId, now, jobState, signals, patches, outages, config, dashboard>>

\* the Promise.all of the four get...SnapshotData and the score
SnapshotCollect(c) ==
  /\ c \in CallIds
  /\ calls[c].op = "snapshot" /\ calls[c].snap.pc = "collect"
  /\ SetSnap(c, [calls[c].snap EXCEPT !.pc = "create", !.data = SnapshotData])
  /\ UNCHANGED <<tables, syncLog, nextId, now, jobState, signals, patches, outages, config, dashboard>>

\* prisma.dailySnapshot.create: the unique index on date rejects a second row
SnapshotCreate(c) ==
  /\ c \in CallIds
  /\ calls[c].op = "snapshot" /\ calls[c].snap.pc = "create"
  /\ IF \E row \in dailySnapshot : row.date = calls[c].snap.today
     THEN /\ SettleSnap(c, "rejected")
          /\ UNCHANGED <<dailySnapshot, nextId>>
     ELSE /\ dailySnapshot' = dailySnapshot \cup
               {[id |-> nextId, date |-> calls[c].snap.today, data |-> calls[c].snap.data]}
          /\ nextId' = nextId + 1
          /\ SettleSnap(c, "resolved")
  /\ UNCHANGED <<kb4User, ncmDevice, edrAlert, hibpBreach, syncLog, now,
                 jobState, signals, patches, outages, config, dashboard>>

(***************************************************************************)
(* POST /api/trends/snapshot and its helpers (routes/trends.ts).           *)
(***************************************************************************)
\* Math.round(x * 100) / 100
Round2(a) == Rat(MathRound(RatScale(100, a)), 100)

collectKB4Stats ==
  [getKB4SnapshotData EXCEPT !.kb4AvgRiskScore = Round2(@),
                             !.kb4AvgPhishProneRate = Round2(@)]

\* new breaches: discovered since midnight
collectHIBPStats ==
  [getHIBPSnapshotData EXCEPT !.hibpNewBreaches =
      Cardinality({b \in hibpBreach : b.discoveredAt >= SetHoursZero(now)})]

calculateRiskScore(kb4, ncm, edr, hibp) ==
  LET kb4Score == MathMin100(RatAdd(Rat(200 * kb4.kb4HighRiskUsers,
                                        MathMax1(kb4.kb4TotalUsers)),
                                    kb4.kb4AvgRiskScore))
      ncmScore == MathMin100(Rat(300 * ncm.ncmP0Devices, MathMax1(ncm.ncmTotalDevices)))
      edrScore == MathMin100(RatAdd(Rat(100 * edr.edrPendingAlerts,
                                        MathMax1(edr.edrTotalAlerts)),
                                    Rat(100 * edr.edrHighAlerts,
                                        MathMax1(edr.edrTotalAlerts))))
      hibpScore == MathMin100(RatInt(10 * hibp.hibpPendingBreaches))
  IN  WeightedRound(kb4Score, ncmScore, edrScore, hibpScore)

RouteSnapshotData ==
  [kb4 |-> collectKB4Stats, ncm |-> getNCMSnapshotData,
   edr |-> getEDRSnapshotData, hibp |-> collectHIBPStats,
   overallRiskScore |-> calculateRiskScore(collectKB4Stats, getNCMSnapshotData,
        getEDRSnapshotData, collectHIBPStats)]

\* the handler runs up to its first await, the Promise.all of collect...Stats
PostSnapshot ==
  /\ Len(calls) < MaxCalls
  /\ now' = now + 1
  /\ calls' = Append(calls, [NewCall("POST snapshot", "manual") EXCEPT
                 !.snap = [pc |-> "collect", today |-> SetHoursZero(now'), data |-> <<>>]])
  /\ UNCHANGED <<tables, syncLog, nextId, jobState, signals, patches, outages, config, dashboard>>

PostSnapshotCollect(c) ==
  /\ c \in CallIds
  /\ calls[c].op = "POST snapshot" /\ calls[c].snap.pc = "collect"
  /\ SetSnap(c, [calls[c].snap EXCEPT !.pc = "upsert", !.data = RouteSnapshotData])
  /\ UNCHANGED <<tables, syncLog, nextId, now, jobState, signals, patches, outages, config, dashboard>>

\* prisma.dailySnapshot.upsert({ where: { date: today }, create, update })
PostSnapshotUpsert(c) ==
  /\ c \in CallIds
  /\ calls[c].op = "POST snapshot" /\ calls[c].snap.pc = "upsert"
  /\ IF \E row \in dailySnapshot : row.date = calls[c].snap.today
     THEN /\ dailySnapshot' = {IF row.date = calls[c].snap.today
                                THEN [row EXCEPT !.data = calls[c].snap.data]
                                ELSE row : row \in dailySnapshot}
          /\ UNCHANGED nextId
     ELSE /\ dailySnapshot' = dailySnapshot \cup
               {[id |-> nextId, date |-> calls[c].snap.today, data |-> calls[c].snap.data]}
          /\ nextId' = nextId + 1
  /\ SettleSnap(c, "resolved")
  /\ UNCHANGED <<kb4User, ncmDevice, edrAlert, hibpBreach, syncLog, now,
                 jobState, signals, patches, outages, config, dashboard>>

(***************************************************************************)
(* Snapshot captures, concurrent with one another, over tables that earlier*)
(* syncs have filled and that analysts edit between the captures.          *)
(***************************************************************************)
\* the rows of a sheet as the reconcilers would have persisted them
SeededKB4 == KB4ApplyBatch(<<CHOOSE row \in KB4RawRows : row.user_id = "u1" /\ row.status = "",
                             CHOOSE row \in KB4RawRows : row.user_id = "u2">>, {}, 1).table

SeededNCM == NCMUpsertAll(NCMParse(<<CHOOSE row \in NCMRawRows :
                                       row.AllDeviceNames = "r1; r2">>), {}, {}, 3).table

SeededEDR == EDRApplyBatch(EDRParse(<<CHOOSE row \in EDRRawRows : row.severity = "High",
                                      CHOOSE row \in EDRRawRows : row.hostname = "h1" /\
                                                                  row.fileSha256 = "abc">>),
                           {}, {}, 5).table

SeededHIBP == HIBPApplyBatch(<<CHOOSE row \in HIBPRawRows : row.BreachName = "Canva">>,
                             {}, 7).table

InitSnap ==
  /\ now \in 0..(TicksPerDay - 1)
  /\ kb4User \in {{}, SeededKB4}
  /\ ncmDevice \in {{}, SeededNCM}
  /\ edrAlert = SeededEDR
  /\ hibpBreach = SeededHIBP
  /\ syncLog = EmptyBag /\ dailySnapshot = {}
  /\ nextId = 8
  /\ calls = <<>>
  /\ isSyncing = FALSE /\ lastSyncResult = <<>> /\ lastSyncTime = NoDate
  /\ jobConsole = ""
  /\ signals = EmptyBag /\ patches = 0
  /\ fragile = {} /\ faults = 0
  /\ riskConfig = DefaultRiskConfig /\ updates = 0
  /\ dashboard = <<>>

NextSnap ==
  \/ StartSnapshot("cron")
  \/ StartSnapshot("manual")
  \/ PostSnapshot
  \/ \E c \in CallIds : SnapshotFind(c)
  \/ \E c \in CallIds : SnapshotCollect(c)
  \/ \E c \in CallIds : SnapshotCreate(c)
  \/ \E c \in CallIds : PostSnapshotCollect(c)
  \/ \E c \in CallIds : PostSnapshotUpsert(c)
  \/ \E a \in edrAlert, body \in PatchBodies :
        Quiet /\ PatchAlert(a.id, body.status, body.assignedTo)
  \/ \E b \in hibpBreach : Quiet /\ UpdateHIBPStatus(b.id, "notified")

SpecSnap == InitSnap /\ [][NextSnap]_vars

(***************************************************************************)
(* updateRiskWeights and PUT /api/dashboard/weights.                       *)
(***************************************************************************)
\* { ...riskConfig.weights, ...newWeights }
Merged(weights, newWeights) ==
  [s \in Sources |-> IF s \in DOMAIN newWeights THEN newWeights[s] ELSE weights[s]]

\* merged.kb4 + merged.ncm + merged.edr + merged.hibp
TotalOf(w) == RatAdd(RatAdd(RatAdd(w["kb4"], w["ncm"]), w["edr"]), w["hibp"])

\* Math.abs(total - 1) > 0.001; false when total - 1 is NaN
FarFromOne(total) ==
  IF total = Text \/ total = NaN THEN FALSE
  ELSE IF ~IsFinite(total) THEN TRUE
  ELSE Abs(total.num - total.den) * 1000 > total.den

\* the weights updateRiskWeights stores and returns
updateRiskWeights(weights, newWeights) ==
  LET merged == Merged(weights, newWeights)
      total == TotalOf(merged)
  IN  IF FarFromOne(total)
      THEN [s \in Sources |-> RatQuot(merged[s], total)]
      ELSE merged

\* the handler of PUT /api/dashboard/weights with body newWeights:
\* updateRiskWeights(newWeights), then cache.del(CacheKeys.DASHBOARD)
UpdateRiskWeights(newWeights) ==
  /\ updates < MaxUpdates
  /\ riskConfig' = [riskConfig EXCEPT
                      !.weights = updateRiskWeights(riskConfig.weights, newWeights)]
  /\ updates' = updates + 1
  /\ dashboard' = <<>>
  /\ UNCHANGED <<tables, syncLog, nextId, now, calls, jobState, signals, patches,
                 outages>>

\* the weight set of the example: 0.1 for each source
Tenths == [s \in Sources |-> Rat(1, 10)]

\* the partial and full weight sets over a set of values
PayloadsOver(values) == UNION {[S -> values] : S \in SUBSET Sources}

\* weights that riskWeightsSchema admits: numbers from 0 to 1
SchemaWeights == {RatInt(0), Rat(1, 10), RatInt(1)}

\* values that riskWeightsSchema refuses
RefusedWeights == {Rat(-1, 2), Rat(3, 2), Text}

(***************************************************************************)
(* Administrators adjusting the weights, with weights of the schema's range*)
(* (SpecWeights) and with any value a request body can carry (SpecBodies). *)
(***************************************************************************)
NextWeights == \E newWeights \in PayloadsOver(SchemaWeights) :
                  UpdateRiskWeights(newWeights)

InitWeights == Start /\ fragile = {}

SpecWeights == InitWeights /\ [][NextWeights]_vars

NextBodies == \E newWeights \in PayloadsOver({Rat(1, 10)} \cup RefusedWeights) :
                 UpdateRiskWeights(newWeights)

SpecBodies == InitWeights /\ [][NextBodies]_vars

(***************************************************************************)
(* The scoring engine of the dashboard (routes/dashboard.ts).              *)
(***************************************************************************)
RECURSIVE SumNumbers(_, _)
SumNumbers(S, f) ==
  IF S = {} THEN RatInt(0)
  ELSE LET x == CHOOSE y \in S : TRUE IN RatAdd(x[f], SumNumbers(S \ {x}, f))

\* aggregate({ _avg }) of a decimal column, followed by `|| 0`
AvgNumberOr0(S, f) ==
  IF S = {} THEN RatInt(0) ELSE RatQuot(SumNumbers(S, f), RatInt(Cardinality(S)))

\* total > 0 ? Math.round((part / total) * 100) : 0
Percentage(part, total) ==
  IF total > 0 THEN MathRound(Rat(100 * part, total)) ELSE 0

\* Math.round(x * 10) / 10
Round1(a) == Rat(MathRound(RatScale(10, a)), 10)

getKB4Stats ==
  LET thresholds == riskConfig.thresholds
      factors == riskConfig.factors
      total == Cardinality(ActiveUsers)
      highRisk == Cardinality({u \in ActiveUsers :
          \/ u.currentRiskScore >= thresholds.kb4HighRiskScore
          \/ u.phishPronePercentage >= thresholds.kb4HighPhishRate})
      avgRiskScore == Round2(AvgOr0(ActiveUsers, "currentRiskScore"))
      riskPercentage == Percentage(highRisk, total)
  IN  [totalUsers |-> total, highRiskUsers |-> highRisk,
       avgRiskScore |-> avgRiskScore, riskPercentage |-> riskPercentage,
       score |-> MathMin100(RatAdd(
           RatInt(riskPercentage * factors.kb4RiskPercentageMultiplier),
           RatScale(factors.kb4AvgScoreWeight, avgRiskScore)))]

getNCMStats ==
  LET factors == riskConfig.factors
      total == Cardinality(ncmDevice)
      p0 == Cardinality({d \in ncmDevice : d.updatePriority = "P0-Immediate"})
      avgMaxCvss == Round1(AvgNumberOr0(ncmDevice, "maxCvss"))
      criticalPercentage == Percentage(p0, total)
  IN  [totalDevices |-> total, avgMaxCvss |-> avgMaxCvss,
       criticalPercentage |-> criticalPercentage,
       score |-> MathMin100(RatAdd(
           RatInt(criticalPercentage * factors.ncmCriticalPercentageMultiplier),
           RatScale(factors.ncmCvssMultiplier, avgMaxCvss)))]

getEDRStats ==
  LET factors == riskConfig.factors
      total == Cardinality(edrAlert)
      pendingCount == Cardinality({a \in edrAlert :
                                     a.status \in {"new", "investigating"}})
      highCount == Cardinality({a \in edrAlert : a.severity \in {"Critical", "High"}})
      pendingPercentage == Percentage(pendingCount, total)
      highSeverityPercentage == Percentage(highCount, total)
  IN  [totalAlerts |-> total, pendingCount |-> pendingCount,
       pendingPercentage |-> pendingPercentage,
       highSeverityPercentage |-> highSeverityPercentage,
       score |-> MathMin100(RatInt(
           pendingPercentage * factors.edrPendingWeight +
           highSeverityPercentage * factors.edrHighSeverityWeight))]

getHIBPStats ==
  LET factors == riskConfig.factors
      newCount == Cardinality({b \in hibpBreach : b.status = "new"})
  IN  [totalBreaches |-> Cardinality(hibpBreach), pendingCount |-> newCount,
       score |-> MathMin100(RatInt(newCount * factors.hibpPendingMultiplier))]

\* Math.round(x); NaN and the infinities are their own rounding
MathRoundNumber(a) == IF IsFinite(a) THEN RatInt(MathRound(a)) ELSE a

calculateOverallRisk(kb4, ncm, edr, hibp) ==
  LET weights == riskConfig.weights
  IN  MathRoundNumber(
        RatAdd(RatAdd(RatAdd(RatMul(kb4.score, weights["kb4"]),
                             RatMul(ncm.score, weights["ncm"])),
                      RatMul(edr.score, weights["edr"])),
               RatMul(hibp.score, weights["hibp"])))

\* score >= threshold; false when score is NaN
AtLeast(score, threshold) ==
  IF IsFinite(score) THEN score.num >= threshold * score.den
  ELSE score.num = 1

\* a cascade that tests the medium threshold before the high one
getRiskLevelMediumFirst(score) ==
  LET thresholds == riskConfig.thresholds
  IN  IF AtLeast(score, thresholds.criticalScore) THEN "critical"
      ELSE IF AtLeast(score, thresholds.mediumScore) THEN "medium"
      ELSE IF AtLeast(score, thresholds.highScore) THEN "high"
      ELSE IF AtLeast(score, thresholds.lowScore) THEN "low"
      ELSE "minimal"

getRiskLevel(score) ==
  LET thresholds == riskConfig.thresholds
  IN  IF AtLeast(score, thresholds.criticalScore) THEN "critical"
      ELSE IF AtLeast(score, thresholds.highScore) THEN "high"
      ELSE IF AtLeast(score, thresholds.mediumScore) THEN "medium"
      ELSE IF AtLeast(score, thresholds.lowScore) THEN "low"
      ELSE "minimal"

\* the value the handler of GET /api/dashboard computes
\* the value that the handler of GET /api/dashboard builds from the four
\* statistics that Promise.all has gathered
DashboardOf(kb4Stats, ncmStats, edrStats, hibpStats) ==
  LET overallRiskScore == calculateOverallRisk(kb4Stats, ncmStats,
                                               edrStats, hibpStats)
  IN  [overallRiskScore |-> overallRiskScore,
       riskLevel |-> getRiskLevel(overallRiskScore),
       weights |-> riskConfig.weights,
       sources |-> [kb4 |-> kb4Stats.score, ncm |-> ncmStats.score,
                    edr |-> edrStats.score, hibp |-> hibpStats.score]]

\* the same with the four statistics read at one moment
DashboardData == DashboardOf(getKB4Stats, getNCMStats, getEDRStats, getHIBPStats)

\* GET /api/dashboard: cache.wrap(CacheKeys.DASHBOARD, ...) returns the
\* cached value or computes one and caches it
GetDashboard ==
  /\ dashboard = <<>>
  /\ dashboard' = DashboardData
  /\ UNCHANGED <<tables, syncLog, nextId, now, calls, jobState, signals, patches,
                 outages, config>>

(***************************************************************************)
(* GET /api/dashboard await by await.  memoryCache.get answers when it is  *)
(* called; on a miss the four get...Stats query the database inside        *)
(* Promise.all and are answered in any order, and the answer to the last   *)
(* one runs the rest of the handler and memoryCache.set in one go.         *)
(***************************************************************************)
\* what get...Stats of source s reads now
StatsOf(s) ==
  CASE s = "kb4" -> getKB4Stats
    [] s = "ncm" -> getNCMStats
    [] s = "edr" -> getEDRStats
    [] s = "hibp" -> getHIBPStats

\* the request arrives: cache.wrap returns the cached value, or calls fn
RequestDashboard ==
  /\ Len(calls) < MaxCalls
  /\ calls' = Append(calls,
       IF dashboard # <<>>
       THEN [NewCall("dashboard", "request") EXCEPT !.pc = "resolved"]
       ELSE [NewCall("dashboard", "request") EXCEPT
               !.snap = [pc |-> "read", today |-> NoDate, data |-> <<>>]])
  /\ UNCHANGED <<tables, syncLog, nextId, now, jobState, signals, patches,
                 outages, config, dashboard>>

\* the database answers get...Stats of source s; with the last answer the
\* value is built and cached
DashboardRead(c, s) ==
  /\ c \in CallIds
  /\ calls[c].op = "dashboard" /\ calls[c].snap.pc = "read"
  /\ s \in Sources \ DOMAIN calls[c].snap.data
  /\ LET read == [t \in DOMAIN calls[c].snap.data \cup {s} |->
                   IF t = s THEN StatsOf(s) ELSE calls[c].snap.data[t]]
     IN IF DOMAIN read = Sources
        THEN /\ dashboard' = DashboardOf(read["kb4"], read["ncm"],
                                         read["edr"], read["hibp"])
             /\ calls' = [calls EXCEPT ![c].snap = NoSnap, ![c].pc = "resolved"]
        ELSE /\ SetSnap(c, [calls[c].snap EXCEPT !.data = read])
             /\ UNCHANGED dashboard
  /\ UNCHANGED <<tables, syncLog, nextId, now, jobState, signals, patches,
                 outages, config>>

(***************************************************************************)
(* The dashboard over tables that earlier syncs have filled or left empty, *)
(* under thresholds of any order, with analysts and administrators at work.*)
(***************************************************************************)
\* a device row of priority P1 with a CVSS of 7.5
SeededNCMLow == NCMUpsertAll(NCMParse(<<CHOOSE row \in NCMRawRows :
                                          row.UpdatePriority = "P1-NextCycle">>),
                             {}, {}, 3).table

\* RISK_THRESHOLDS as the environment may give them: riskThresholdsSchema
\* takes any four numbers
ThresholdChoices ==
  {[DefaultThresholds EXCEPT !.criticalScore = c, !.highScore = h,
                             !.mediumScore = m, !.lowScore = l] :
     c \in {20, 80}, h \in {20, 60}, m \in {40, 90}, l \in {20, 50}}

InitDashboard ==
  /\ now = 0
  /\ kb4User \in {{}, SeededKB4}
  /\ ncmDevice \in {{}, SeededNCMLow}
  /\ edrAlert \in {{}, SeededEDR}
  /\ hibpBreach \in {{}, SeededHIBP}
  /\ syncLog = EmptyBag /\ dailySnapshot = {}
  /\ nextId = 8
  /\ calls = <<>>
  /\ isSyncing = FALSE /\ lastSyncResult = <<>> /\ lastSyncTime = NoDate
  /\ jobConsole = ""
  /\ signals = EmptyBag /\ patches = 0
  /\ fragile = {} /\ faults = 0
  /\ riskConfig \in {[DefaultRiskConfig EXCEPT !.thresholds = t] :
                       t \in ThresholdChoices}
  /\ updates = 0
  /\ dashboard = <<>>

\* the weight sets the administrators send
AdminPayloads ==
  {Tenths, [kb4 |-> RatInt(1)], [ncm |-> RatInt(0), edr |-> RatInt(0)],
   [s \in Sources |-> RatInt(0)]}

NextDashboard ==
  \/ GetDashboard
  \/ \E newWeights \in AdminPayloads : UpdateRiskWeights(newWeights)
  \/ \E a \in edrAlert, body \in PatchBodies :
        PatchAlert(a.id, body.status, body.assignedTo)
  \/ \E b \in hibpBreach : UpdateHIBPStatus(b.id, "notified")

SpecDashboard == InitDashboard /\ [][NextDashboard]_vars

(***************************************************************************)
(* The snapshot captures next to the dashboard, under the default          *)
(* thresholds and factors, with administrators adjusting the weights.      *)
(***************************************************************************)
InitScores == InitDashboard /\ riskConfig = DefaultRiskConfig

NextScores ==
  \/ StartSnapshot("cron")
  \/ StartSnapshot("manual")
  \/ PostSnapshot
  \/ \E c \in CallIds : SnapshotFind(c)
  \/ \E c \in CallIds : SnapshotCollect(c)
  \/ \E c \in CallIds : SnapshotCreate(c)
  \/ \E c \in CallIds : PostSnapshotCollect(c)
  \/ \E c \in CallIds : PostSnapshotUpsert(c)
  \/ GetDashboard
  \/ UpdateRiskWeights(Tenths)

SpecScores == InitScores /\ [][NextScores]_vars

(***************************************************************************)
(* syncAll and the scheduled sync (sync.ts, jobs/sync-job.ts).             *)
(***************************************************************************)
\* the combined result, without totalDuration
SyncAllResult(c) == [s \in Sources |-> calls[c].run[s].result]

\* the cron callback ignoring the flag
CronTickIgnoresFlag ==
  /\ Len(calls) < MaxCalls
  /\ isSyncing' = TRUE
  /\ jobConsole' = "Starting scheduled sync..."
  /\ now' = now + 1
  /\ calls' = Append(calls, NewCall("all", "cron"))
  /\ UNCHANGED <<tables, syncLog, nextId, lastSyncResult, lastSyncTime,
                 signals, patches, outages, config, dashboard>>

\* the cron callback up to `await syncAll()`, whose four reconcilers have
\* each run up to their first await
CronTick ==
  IF isSyncing
  THEN /\ jobConsole' = "Sync already in progress, skipping..."
       /\ UNCHANGED <<tables, syncLog, nextId, now, calls, isSyncing,
                      lastSyncResult, lastSyncTime, signals, patches, outages, config, dashboard>>
  ELSE /\ Len(calls) < MaxCalls
       /\ isSyncing' = TRUE
       /\ jobConsole' = "Starting scheduled sync..."
       /\ now' = now + 1
       /\ calls' = Append(calls, NewCall("all", "cron"))
       /\ UNCHANGED <<tables, syncLog, nextId, lastSyncResult, lastSyncTime,
                      signals, patches, outages, config, dashboard>>

\* the same without the finally block: a rejected syncAll leaves the flag up
SyncAllSettleNoFinally(c) ==
  /\ c \in CallIds
  /\ calls[c].op = "all" /\ calls[c].pc = "running"
  /\ \/ /\ \E s \in Sources : calls[c].run[s].pc = "rejected"
        /\ calls' = [calls EXCEPT ![c].pc = "rejected"]
        /\ IF calls[c].trigger = "cron"
           THEN jobConsole' = "Sync failed:" /\ UNCHANGED isSyncing
           ELSE UNCHANGED <<isSyncing, jobConsole>>
        /\ UNCHANGED <<signals, lastSyncResult, lastSyncTime, dashboard>>
     \/ /\ \A s \in Sources : calls[c].run[s].pc = "resolved"
        /\ signals' = signals (+) SetToBag({"all"})
        /\ dashboard' = <<>>
        /\ calls' = [calls EXCEPT ![c].pc = "resolved"]
        /\ IF calls[c].trigger = "cron"
           THEN /\ lastSyncResult' = SyncAllResult(c)
                /\ lastSyncTime' = now
                /\ isSyncing' = FALSE
                /\ jobConsole' = "Sync completed"
           ELSE UNCHANGED jobState
  /\ UNCHANGED <<tables, syncLog, nextId, now, patches, outages, config>>

\* Promise.all settles: it rejects with the first reconciler that rejects,
\* and resolves once all four have resolved; then the rest of syncAll and
\* of the cron callback (try / catch / finally) run
SyncAllSettle(c) ==
  /\ c \in CallIds
  /\ calls[c].op = "all" /\ calls[c].pc = "running"
  /\ \/ /\ \E s \in Sources : calls[c].run[s].pc = "rejected"
        /\ calls' = [calls EXCEPT ![c].pc = "rejected"]
        /\ IF calls[c].trigger = "cron"
           THEN isSyncing' = FALSE /\ jobConsole' = "Sync failed:"
           ELSE UNCHANGED <<isSyncing, jobConsole>>
        /\ UNCHANGED <<signals, lastSyncResult, lastSyncTime, dashboard>>
     \/ /\ \A s \in Sources : calls[c].run[s].pc = "resolved"
        /\ signals' = signals (+) SetToBag({"all"})
        /\ dashboard' = <<>>
        /\ calls' = [calls EXCEPT ![c].pc = "resolved"]
        /\ IF calls[c].trigger = "cron"
           THEN /\ lastSyncResult' = SyncAllResult(c)
                /\ lastSyncTime' = now
                /\ isSyncing' = FALSE
                /\ jobConsole' = "Sync completed"
           ELSE UNCHANGED jobState
  /\ UNCHANGED <<tables, syncLog, nextId, now, patches, outages, config>>

\* the sheets of a deployment that tracks one user, one device pair, one
\* alert and one breach
KB4Sheet == <<CHOOSE row \in KB4RawRows : row.user_id = "u2">>

NCMSheet == <<CHOOSE row \in NCMRawRows : row.AllDeviceNames = "r1; r2">>

EDRSheet == <<CHOOSE row \in EDRRawRows : row.severity = "High">>

HIBPSheet == <<CHOOSE row \in HIBPRawRows : row.BreachName = "Canva">>

\* every run of every invocation has returned
Idle == \A c \in CallIds, s \in Sources : calls[c].run[s].pc \in {"none", "resolved", "rejected"}

ReconcilerStep ==
  \/ \E c \in CallIds : KB4Fetch(c, {KB4Sheet})
  \/ \E c \in CallIds : KB4Batch(c)
  \/ \E c \in CallIds : NCMFetch(c, {NCMSheet})
  \/ \E c \in CallIds : NCMTransaction(c)
  \/ \E c \in CallIds : EDRFetch(c, {EDRSheet})
  \/ \E c \in CallIds : EDRFind(c)
  \/ \E c \in CallIds : EDRBatch(c)
  \/ \E c \in CallIds : HIBPFetch(c, {HIBPSheet})
  \/ \E c \in CallIds : HIBPBatch(c)
  \/ \E c \in CallIds, s \in Sources : LogSuccess(c, s)
  \/ \E c \in CallIds, s \in Sources : LogError(c, s)

(***************************************************************************)
(* The scheduled sync, ticking at any moment; the sheet of one source is   *)
(* unreliable.                                                             *)
(***************************************************************************)
NextSched ==
  \/ CronTick
  \/ ReconcilerStep
  \/ \E c \in CallIds : SyncAllSettle(c)

InitSched == Start /\ fragile = {"kb4"}

SpecSched == InitSched /\ [][NextSched]_vars

(***************************************************************************)
(* The scheduled sync of a deployment whose four sheets have no rows yet,  *)
(* with the database unreliable, so that a syncAll can reject.  Every      *)
(* awaited call of the sheets and of the database settles, and the event   *)
(* loop then runs the continuation.                                        *)
(***************************************************************************)
EmptySheetStep ==
  \/ \E c \in CallIds : KB4Fetch(c, {<<>>})
  \/ \E c \in CallIds : NCMFetch(c, {<<>>})
  \/ \E c \in CallIds : NCMTransaction(c)
  \/ \E c \in CallIds : EDRFetch(c, {<<>>})
  \/ \E c \in CallIds : EDRFind(c)
  \/ \E c \in CallIds : HIBPFetch(c, {<<>>})
  \/ \E c \in CallIds, s \in Sources : LogSuccess(c, s)
  \/ \E c \in CallIds, s \in Sources : LogError(c, s)

NextRelease ==
  \/ CronTick
  \/ EmptySheetStep
  \/ \E c \in CallIds : SyncAllSettle(c)

InitRelease == Start /\ fragile = {"db"}

SpecRelease ==
  /\ InitRelease
  /\ [][NextRelease]_vars
  /\ WF_vars(EmptySheetStep)
  /\ WF_vars(\E c \in CallIds : SyncAllSettle(c))

(***************************************************************************)
(* The scheduled sync together with manualSync.all, which POST /api/sync   *)
(* and the start-up sync of a production server call at any moment; the    *)
(* sheets have no rows yet and the sheet of one source is unreliable.      *)
(***************************************************************************)
NextCover ==
  \/ CronTick
  \/ ManualSync("all")
  \/ EmptySheetStep
  \/ \E c \in CallIds : SyncAllSettle(c)

InitCover == Start /\ fragile = {"kb4"}

SpecCover == InitCover /\ [][NextCover]_vars

(***************************************************************************)
(* syncAll called through POST /api/sync, each call after the runs of the  *)
(* previous one have returned; the sheet of one source and the database   *)
(* are unreliable.                                                         *)
(***************************************************************************)
NextSyncAll ==
  \/ Idle /\ ManualSync("all")
  \/ ReconcilerStep
  \/ \E c \in CallIds : SyncAllSettle(c)

InitSyncAll == Start /\ fragile = {"kb4", "db"}

SpecSyncAll == InitSyncAll /\ [][NextSyncAll]_vars

(***************************************************************************)
(* A manual trigger of one reconciler (POST /api/sync?source=...) racing   *)
(* the scheduled sync on the same sheets; the alert sheet is unreliable.   *)
(***************************************************************************)
NextRace ==
  \/ CronTick
  \/ \E op \in {"edr", "ncm"} : ManualSync(op)
  \/ ReconcilerStep
  \/ \E c \in CallIds : SyncAllSettle(c)

InitRace == Start /\ fragile = {"edr"}

SpecRace == InitRace /\ [][NextRace]_vars

\* the sheet of a deployment with one user at risk
KB4RiskSheet == <<CHOOSE row \in KB4RawRows : row.email = "a@x.com">>

(***************************************************************************)
(* Dashboard requests at any moment of runs of syncKB4 and syncEDR.        *)
(***************************************************************************)
NextCache ==
  \/ \E op \in {"kb4", "edr"} : ManualSync(op)
  \/ \E c \in CallIds : KB4Fetch(c, {KB4RiskSheet})
  \/ \E c \in CallIds : KB4Batch(c)
  \/ \E c \in CallIds : EDRFetch(c, {EDRSheet})
  \/ \E c \in CallIds : EDRFind(c)
  \/ \E c \in CallIds : EDRBatch(c)
  \/ \E c \in CallIds, s \in {"kb4", "edr"} : LogSuccess(c, s)
  \/ RequestDashboard
  \/ \E c \in CallIds, s \in Sources : DashboardRead(c, s)

InitCache == Start /\ fragile = {}

SpecCache == InitCache /\ [][NextCache]_vars

(***************************************************************************)
(* Properties of the alert reconciler.                                     *)
(***************************************************************************)
\* the natural key of an AlertRecord: (hostname, detection time, hash or '')
AlertNaturalKey(a) ==
  <<a.hostname, a.detectedAt, IF a.fileSha256 = NULL THEN "" ELSE a.fileSha256>>

AlertKeysUnique ==
  \A a, b \in edrAlert : AlertNaturalKey(a) = AlertNaturalKey(b) => a.id = b.id

\* a batch of a run that found every key of its feed among the persisted
\* alerts (as a second run on an unchanged feed does) adds no row
RerunAddsNoAlert ==
  \A c \in CallIds :
    LET r == calls[c].run["edr"] IN
      (/\ r.pc = "batch"
       /\ calls'[c].run["edr"] # r
       /\ \A k \in 1..Len(r.valid) : MapHas(r.existingMap, EDRKey(r.valid[k])))
      => Cardinality(edrAlert') = Cardinality(edrAlert)

\* C2: alert idempotence - a second syncEDR run on an unchanged feed leaves
\* the number of alerts unchanged, and after any sequence of syncEDR runs no
\* two persisted alerts share the key (hostname, detection time, hash or ''),
\* also for a feed in which two rows carry the same key.
C2_AlertIdempotence == [][RerunAddsNoAlert]_vars /\ []AlertKeysUnique

\* every field of an alert that a re-sync must leave alone
SameButVerdict(a, b) ==
  /\ b.id = a.id /\ b.hostname = a.hostname /\ b.detectedAt = a.detectedAt
  /\ b.fileSha256 = a.fileSha256 /\ b.severity = a.severity
  /\ b.status = a.status /\ b.assignedTo = a.assignedTo
  /\ b.resolvedAt = a.resolvedAt

\* C4: preserved workflow fields - in every step that is not an analyst's
\* edit, each persisted alert keeps every field but its third-party verdict
\* and sync timestamp (status, assignee and resolution time included), and
\* each alert the step adds has status `new`.
C4_SyncPreservesWorkflow ==
  [][patches' = patches =>
       /\ \A a \in edrAlert : \E b \in edrAlert' : SameButVerdict(a, b)
       /\ \A b \in edrAlert' :
            (\A a \in edrAlert : a.id # b.id) => b.status = "new"]_vars

\* an alert created without verdict, resolved by an analyst at time 1 and
\* then met again by the run started at time 2, which refreshed its verdict
C4_Witness ==
  \E a \in edrAlert :
    /\ a.status = "resolved" /\ a.resolvedAt = 1
    /\ a.severity = "Low" /\ a.vtVerdict = "malicious" /\ a.syncedAt = 2

(***************************************************************************)
(* Properties of the two upsert reconcilers.                               *)
(***************************************************************************)
KB4UserIdsUnique ==
  \A u, v \in kb4User : u.userId = v.userId => u.id = v.id

BreachKeysUnique ==
  \A a, b \in hibpBreach :
    (a.email = b.email /\ a.breachName = b.breachName) => a.id = b.id

\* a batch of a run whose rows all have their key persisted already (as in a
\* second run on an unchanged feed) changes no row count
RerunAddsNoRow ==
  \A c \in CallIds :
    LET k == calls[c].run["kb4"]
        h == calls[c].run["hibp"]
    IN /\ (/\ k.pc = "batch" /\ calls'[c].run["kb4"] # k
           /\ \A n \in 1..Len(k.valid) :
                \E u \in kb4User : u.userId = k.valid[n].user_id)
          => Cardinality(kb4User') = Cardinality(kb4User)
       /\ (/\ h.pc = "batch" /\ calls'[c].run["hibp"] # h
           /\ \A n \in 1..Len(h.valid) :
                \E b \in hibpBreach : /\ b.email = h.valid[n].Email
                                       /\ b.breachName = h.valid[n].BreachName)
          => Cardinality(hibpBreach') = Cardinality(hibpBreach)

\* C3: identity and breach idempotence - after any sequence of syncKB4 and
\* syncHIBP runs there is at most one KB4 user per external user id and at
\* most one breach per (email, breach name), and a run that finds all its
\* keys persisted (a second run on an unchanged feed) changes no row count.
C3_UpsertIdempotence ==
  [](KB4UserIdsUnique /\ BreachKeysUnique) /\ [][RerunAddsNoRow]_vars

\* user u1, created by the run at time 1 (location is set on create only)
\* and met again by the run at time 2, is still the only row of u1
C3_Witness ==
  /\ \E u \in kb4User : /\ u.userId = "u1" /\ u.location = "TPE"
                         /\ u.email = "a2@x.com" /\ u.syncedAt = 2
  /\ Cardinality({u \in kb4User : u.userId = "u1"}) = 1

SameButSyncedAt(a, b) ==
  /\ b.id = a.id /\ b.email = a.email /\ b.breachName = a.breachName
  /\ b.status = a.status /\ b.domain = a.domain /\ b.alias = a.alias
  /\ b.breachDate = a.breachDate /\ b.discoveredAt = a.discoveredAt

\* C5: breach immutability on re-sync - in every step that is not an
\* analyst's edit, each persisted breach keeps its status, domain, alias,
\* breach date and discovery timestamp (all but the sync timestamp), whatever
\* the feed of the run says for them.
C5_BreachImmutable ==
  [][patches' = patches =>
       \A a \in hibpBreach : \E b \in hibpBreach' : SameButSyncedAt(a, b)]_vars

\* a run has just upserted a feed that names Adobe with domain y.com and an
\* alias, and the breach recorded earlier (x.com, notified since) is still so
C5_Witness ==
  \E c \in CallIds :
    /\ calls[c].run["hibp"].pc = "log"
    /\ \E n \in 1..Len(calls[c].run["hibp"].valid) :
         /\ calls[c].run["hibp"].valid[n].BreachName = "Adobe"
         /\ calls[c].run["hibp"].valid[n].Domain = "y.com"
    /\ \E b \in hibpBreach :
         /\ b.breachName = "Adobe" /\ b.domain = "x.com" /\ b.alias = NULL
         /\ b.status = "notified" /\ b.breachDate = 1 /\ b.discoveredAt = 2
         /\ b.syncedAt = 2

(***************************************************************************)
(* Properties of the device reconciler.                                    *)
(***************************************************************************)
\* the natural key of a DeviceRecord
DeviceNaturalKey(d) == <<d.deviceName, d.deviceIp>>

DeviceKeys(table) == {DeviceNaturalKey(d) : d \in table}

FeedKeys(devices) == {DeviceNaturalKey(devices[k]) : k \in 1..Len(devices)}

\* C1: mirror invariant - when the transaction of a syncNCM run commits, the
\* set of persisted (deviceName, deviceIp) keys equals the set of keys of the
\* feed of that run, and if the feed has fewer keys (M) than were persisted
\* before (N), exactly M devices are persisted and no removed key remains.
C1_MirrorInvariant ==
  [][\A c \in CallIds :
       LET r == calls[c].run["ncm"] IN
         (r.pc = "tx" /\ calls'[c].run["ncm"].pc = "log")
         => /\ DeviceKeys(ncmDevice') = FeedKeys(r.valid)
            /\ Cardinality(FeedKeys(r.valid)) < Cardinality(DeviceKeys(ncmDevice))
               => /\ Cardinality(ncmDevice') = Cardinality(FeedKeys(r.valid))
                  /\ DeviceKeys(ncmDevice') \cap
                       (DeviceKeys(ncmDevice) \ FeedKeys(r.valid)) = {}]_vars

(***************************************************************************)
(* Properties of the snapshot recorder.                                    *)
(***************************************************************************)
RowsOfDate(table, date) == {row \in table : row.date = date}

\* C6: snapshot overwrite - when createDailySnapshot is the only capture in
\* use (scheduled job, manualSync.snapshot) and a call of it returns,
\* exactly one DailySnapshot row has the date of the call and that row holds
\* the data of the tables as they are at that call (the returning step
\* leaves the four tables and the clock alone), so that a second call on the
\* same date supersedes the data of the first.
C6_SnapshotOverwrite ==
  [][\A c \in CallIds :
       (/\ \A d \in CallIds : calls[d].op = "snapshot"
        /\ calls[c].snap.pc # "resolved"
        /\ calls'[c].snap.pc = "resolved")
       => /\ Cardinality(RowsOfDate(dailySnapshot', calls[c].snap.today)) = 1
          /\ \A row \in RowsOfDate(dailySnapshot', calls[c].snap.today) :
                row.data = SnapshotData]_vars

SnapshotDatesUnique ==
  \A a, b \in dailySnapshot : a.date = b.date => a = b

NoCaptureFails == \A c \in CallIds : calls[c].snap.pc # "rejected"

\* C7: snapshot uniqueness under concurrency - in every reachable state of
\* any interleaving of captures (scheduled job, manualSync.snapshot, POST
\* /api/trends/snapshot), no two DailySnapshot rows share a date and no
\* capture has ended with an error.
C7_SnapshotUnique == SnapshotDatesUnique /\ NoCaptureFails

(***************************************************************************)
(* Properties of the scheduled sync and of syncAll.                        *)
(***************************************************************************)
ScheduledInFlight ==
  {c \in CallIds : calls[c].trigger = "cron" /\ calls[c].pc = "running"}

\* a step taken while a scheduled syncAll is in flight starts no call and
\* no reconciler
InFlightStartsNothing ==
  ScheduledInFlight # {}
  => /\ Len(calls') = Len(calls)
     /\ \A c \in CallIds, s \in Sources :
          calls'[c].run[s].pc = "fetch" => calls[c].run[s].pc = "fetch"

\* a call starts in the tick that finds the flag down, and in no other step
StartsOnlyAtFreeTick ==
  Len(calls') > Len(calls)
  => /\ ~isSyncing /\ isSyncing'
     /\ jobConsole' = "Starting scheduled sync..."

\* C8: scheduled check-and-skip - at most one scheduled syncAll is in flight
\* in every reachable state; a tick that fires while one is in flight starts
\* no call and no reconciler, and a call starts only in a tick that found
\* none in flight (nothing is queued for later).
C8_CheckAndSkip ==
  /\ [](Cardinality(ScheduledInFlight) <= 1)
  /\ [][InFlightStartsNothing /\ StartsOnlyAtFreeTick]_vars

\* a tick has just been skipped: the scheduled syncAll it found is in flight,
\* with a reconciler of it still at work and another one done
C8_Witness ==
  /\ jobConsole = "Sync already in progress, skipping..."
  /\ isSyncing
  /\ \E c \in ScheduledInFlight :
       /\ calls[c].run["edr"].pc = "batch"
       /\ calls[c].run["hibp"].pc = "resolved"

\* the run of source s in call c leaves its catch block in this step
LeavesCatch(c, s) ==
  /\ calls[c].run[s].pc = "catch"
  /\ calls'[c].run[s].pc # "catch"

\* C9: source-failure isolation - in a syncAll, a reconciler whose fetch has
\* failed ends with the result {success: false, count: 0, error: message}
\* and with an error SyncLogEntry of count 0 written for it, and the syncAll
\* in which a fetch failed ends resolved, with all four reconcilers resolved
\* and their results in the combined result.
C9_FetchFailureIsolated ==
  [][\A c \in CallIds :
       calls[c].op = "all" =>
         /\ \A s \in Sources :
              (LeavesCatch(c, s) /\ calls[c].run[s].errorMsg = "fetch failed")
              => /\ calls'[c].run[s].pc = "resolved"
                 /\ calls'[c].run[s].result =
                      [success |-> FALSE, count |-> 0, error |-> "fetch failed"]
                 /\ syncLog' = logSync(s, "error", 0, "fetch failed")
         /\ (/\ calls[c].pc = "running" /\ calls'[c].pc # "running"
             /\ \E s \in Sources : calls[c].run[s].result.error = "fetch failed")
            => /\ calls'[c].pc = "resolved"
               /\ \A s \in Sources : calls'[c].run[s].pc = "resolved"]_vars

\* C10: no sync failure escapes - in every reachable state no reconciler has
\* rejected and no syncAll has rejected, whichever of the fetch, a batch
\* transaction or the write of the SyncLogEntry failed.
C10_NoFailureEscapes ==
  \A c \in CallIds :
    /\ calls[c].pc # "rejected"
    /\ \A s \in Sources : calls[c].run[s].pc # "rejected"

(***************************************************************************)
(* Properties of the audit log and of the failure paths of the reconcilers.*)
(***************************************************************************)
\* the run of source s in call c returns or throws in this step
Ends(c, s) ==
  /\ calls[c].run[s].pc \notin {"none", "resolved", "rejected"}
  /\ Settled(calls'[c].run[s])

\* the SyncLog row that matches a result
EntryOf(s, res) ==
  [source |-> s, status |-> IF res.success THEN "success" ELSE "error",
   recordCount |-> res.count, error |-> res.error, createdAt |-> now]

\* C11: one audit entry per run - the step in which a run of a reconciler
\* ends adds exactly one SyncLogEntry, of the run's source, whose outcome
\* and record count are the success flag and the count of the result the
\* run returns; no other step adds an entry, and no step changes or removes
\* an entry that is there.
C11_OneEntryPerRun ==
  [][/\ syncLog \sqsubseteq syncLog'
     /\ syncLog' # syncLog => \E c \in CallIds, s \in Sources : Ends(c, s)
     /\ \A c \in CallIds, s \in Sources :
          Ends(c, s)
          => /\ calls'[c].run[s].pc = "resolved"
             /\ syncLog' = syncLog (+)
                  SetToBag({EntryOf(s, calls'[c].run[s].result)})]_vars

\* the reconcilers that write through processBatch, and their tables
BatchSources == {"kb4", "edr", "hibp"}

\* the messages of a batch transaction that has thrown
BatchErrors ==
  {"transaction failed", "record not found", "Invalid value", "Invalid time value"}

\* the transaction of a batch of source s in call c throws in this step
BatchFails(c, s) ==
  /\ calls[c].run[s].pc = "batch"
  /\ calls'[c].run[s].pc = "catch"

\* this step leaves the table of source s as it is
TableKept(s) ==
  CASE s = "kb4" -> kb4User' = kb4User
    [] s = "ncm" -> ncmDevice' = ncmDevice
    [] s = "edr" -> edrAlert' = edrAlert
    [] s = "hibp" -> hibpBreach' = hibpBreach

\* C12: batch atomicity - the step in which the transaction of a batch of
\* syncKB4, syncEDR or syncHIBP fails leaves the table as the batches before
\* it left it (none of its writes, all of theirs); the run attempts no batch
\* afterwards; and it returns {success: false, count: 0, error}.
C12_BatchAtomicity ==
  [][\A c \in CallIds, s \in BatchSources :
       /\ BatchFails(c, s) => TableKept(s)
       /\ calls[c].run[s].pc = "catch" => calls'[c].run[s].pc # "batch"
       /\ (LeavesCatch(c, s) /\ calls[c].run[s].errorMsg \in BatchErrors)
          => /\ calls'[c].run[s].pc = "resolved"
             /\ calls'[c].run[s].result =
                  [success |-> FALSE, count |-> 0,
                   error |-> calls[c].run[s].errorMsg]]_vars

\* the transaction of syncNCM in call c throws in this step
TransactionFails(c) ==
  /\ calls[c].run["ncm"].pc = "tx"
  /\ calls'[c].run["ncm"].pc = "catch"

\* C13: device reconciliation is all-or-nothing - the step in which the
\* transaction of syncNCM fails (at its read, its delete, an update or a
\* create) leaves the persisted device set as it was before the run's
\* transaction, and the run returns {success: false, count: 0, error}.
C13_DeviceAllOrNothing ==
  [][\A c \in CallIds :
       /\ TransactionFails(c) => TableKept("ncm")
       /\ (/\ LeavesCatch(c, "ncm")
           /\ calls[c].run["ncm"].errorMsg \in BatchErrors)
          => /\ calls'[c].run["ncm"].pc = "resolved"
             /\ calls'[c].run["ncm"].result =
                  [success |-> FALSE, count |-> 0,
                   error |-> calls[c].run["ncm"].errorMsg]]_vars

\* C14: row-level defects are never fatal - with the sheets and the database
\* answering every call, whatever the cells of the rows hold (a number or a
\* date that cannot be parsed, in particular a non-empty detection time that
\* is no date), no run of syncKB4 or syncEDR enters its catch block and
\* every run that has returned has returned success = true.
C14_RowDefectsNotFatal ==
  \A c \in CallIds, s \in Sources :
    /\ calls[c].run[s].pc # "catch"
    /\ Settled(calls[c].run[s]) => calls[c].run[s].result.success

(***************************************************************************)
(* Properties of the risk configuration and of the scores.                 *)
(***************************************************************************)
\* the weights sum to 1 within 0.001
SumsToOne(w) == IsFinite(TotalOf(w)) /\ ~FarFromOne(TotalOf(w))

Quarters == [s \in Sources |-> Rat(1, 4)]

\* C15: weight normalization - after any sequence of updateRiskWeights calls
\* with partial or full sets of weights between 0 and 1, the stored weights
\* sum to 1 within 0.001; and the call with {kb4: 0.1, ncm: 0.1, edr: 0.1,
\* hibp: 0.1} stores 0.25 for each source.
C15_WeightsSumToOne ==
  /\ [](SumsToOne(riskConfig.weights))
  /\ [][UpdateRiskWeights(Tenths) => riskConfig'.weights = Quarters]_vars

\* a weight that riskWeightsSchema admits
InRange(v) == IsFinite(v) /\ 0 <= v.num /\ v.num <= v.den

\* a payload with a negative weight, a weight above 1, a value that is no
\* number, or a total of 0
InvalidPayload(weights, newWeights) ==
  \/ \E s \in DOMAIN newWeights : ~InRange(newWeights[s])
  \/ TotalOf(Merged(weights, newWeights)) = RatInt(0)

\* C16: configuration validation - a call of updateRiskWeights with an
\* invalid payload (a negative weight, a weight above 1, a non-numeric value
\* or a total of 0) leaves riskConfig exactly as it was.
C16_InvalidPayloadRejected ==
  [][\A newWeights \in PayloadsOver(SchemaWeights \cup RefusedWeights) :
       (/\ InvalidPayload(riskConfig.weights, newWeights)
        /\ UpdateRiskWeights(newWeights))
       => riskConfig' = riskConfig]_vars

\* a score from 0 to 100
InScale(a) == IsFinite(a) /\ 0 <= a.num /\ a.num <= 100 * a.den

\* C17: score boundedness - in every reachable state, whatever the tables
\* hold (no user, no device, no alert and no breach included) and whatever
\* the configuration has become, the four sub-scores of getKB4Stats,
\* getNCMStats, getEDRStats and getHIBPStats and the overall score of
\* calculateOverallRisk lie in [0, 100].
C17_ScoresInScale ==
  /\ \A s \in Sources : InScale(DashboardData.sources[s])
  /\ InScale(DashboardData.overallRiskScore)

\* the scores at and next to the thresholds in use, and the ends of the scale
ScoreSamples ==
  {0, 100} \cup {t - d : t \in {20, 40, 50, 60, 80, 90}, d \in {0, 1}}

\* the cascade as the claim words it
Cascade(score) ==
  LET thresholds == riskConfig.thresholds
  IN  CASE score >= thresholds.criticalScore -> "critical"
        [] score < thresholds.criticalScore /\ score >= thresholds.highScore -> "high"
        [] score < thresholds.criticalScore /\ score < thresholds.highScore
           /\ score >= thresholds.mediumScore -> "medium"
        [] score < thresholds.criticalScore /\ score < thresholds.highScore
           /\ score < thresholds.mediumScore /\ score >= thresholds.lowScore -> "low"
        [] OTHER -> "minimal"

LevelRank(level) ==
  CASE level = "minimal" -> 0
    [] level = "low" -> 1
    [] level = "medium" -> 2
    [] level = "high" -> 3
    [] level = "critical" -> 4

\* C18: risk-level classification - under any configured thresholds,
\* ordered or not, getRiskLevel returns critical from criticalScore up, else
\* high from highScore up, else medium from mediumScore up, else low from
\* lowScore up, else minimal; and of two scores s1 <= s2 the level of s2 is
\* never lower than the level of s1.
C18_RiskLevelMonotone ==
  \A s1, s2 \in ScoreSamples :
    /\ getRiskLevel(RatInt(s1)) = Cascade(s1)
    /\ s1 <= s2 => LevelRank(getRiskLevel(RatInt(s2))) >=
                   LevelRank(getRiskLevel(RatInt(s1)))

\* the dashboard has been computed under thresholds out of order, and its
\* score is rated critical although it is below the high threshold
C18_Witness ==
  /\ dashboard # <<>>
  /\ riskConfig.thresholds.criticalScore < riskConfig.thresholds.highScore
  /\ dashboard.riskLevel = "critical"
  /\ ~AtLeast(dashboard.overallRiskScore, riskConfig.thresholds.highScore)
  /\ dashboard.riskLevel = getRiskLevel(dashboard.overallRiskScore)

\* call c computes the data of its snapshot row in this step
Collects(c) ==
  /\ calls[c].snap.pc = "collect"
  /\ calls'[c].snap.pc \in {"create", "upsert"}

\* C19: snapshot score equals engine score - the overallRiskScore that
\* createDailySnapshot or POST /api/trends/snapshot computes for its row is
\* the overall score that calculateOverallRisk, with the weights, factors
\* and thresholds in force, gives for the dashboard from the same tables.
C19_SnapshotScoreIsEngineScore ==
  [][\A c \in CallIds :
       Collects(c)
       => RatInt(calls'[c].snap.data.overallRiskScore) =
            DashboardData.overallRiskScore]_vars

(***************************************************************************)
(* Properties of the user reconciler.                                      *)
(***************************************************************************)
\* the attributes of a KB4User row that the sheet carries
FeedAttributes ==
  {"email", "department", "location", "status", "currentRiskScore",
   "phishPronePercentage", "lastSignIn"}

\* every feed-carried attribute of user u has the value derived from row
DerivedFrom(u, row) ==
  \A f \in FeedAttributes : u[f] = KB4CreateData(u.id, row)[f]

\* the batch transaction of syncKB4 in call c commits in this step
BatchCommits(c) ==
  /\ calls[c].run["kb4"].pc = "batch"
  /\ calls'[c].run["kb4"].pc \in {"batch", "log"}

\* C20: identity update refreshes every mutable field - when a batch of
\* syncKB4 commits, every user id of the batch that was persisted before
\* has, in its persisted record, for every attribute the feed carries
\* (e-mail, department, location, status, both risk metrics, last sign-in),
\* the value derived from the last row of the batch with that user id.
C20_UpdateRefreshesAll ==
  [][\A c \in CallIds :
       BatchCommits(c)
       => LET r == calls[c].run["kb4"]
              batch == Slice(r.valid, r.i, BATCH_SIZE)
          IN  \A k \in 1..Len(batch) :
                (/\ \A j \in (k + 1)..Len(batch) :
                       batch[j].user_id # batch[k].user_id
                 /\ \E u \in kb4User : u.userId = batch[k].user_id)
                => \E u \in kb4User' :
                     /\ u.userId = batch[k].user_id
                     /\ DerivedFrom(u, batch[k])]_vars

(***************************************************************************)
(* Properties of the persistence of identity records.                      *)
(***************************************************************************)
\* the run of syncKB4 in call c commits or fails a batch in this step
KB4BatchStep(c) ==
  /\ calls[c].run["kb4"].pc = "batch"
  /\ calls'[c].run["kb4"] # calls[c].run["kb4"]

\* the user ids of the valid rows of the feed of the run in call c
KB4FeedIds(c) ==
  {calls[c].run["kb4"].valid[k].user_id : k \in 1..Len(calls[c].run["kb4"].valid)}

\* C21: identity records are never deleted by sync - in every step, each
\* persisted KB4 user is still persisted afterwards under the same id and
\* user id, and a user changes a field value only in a batch step of a syncKB4
\* run whose feed names its user id: a user absent from the feed keeps all
\* its field values.
C21_IdentityNeverDeleted ==
  [][\A u \in kb4User :
       /\ \E v \in kb4User' : v.id = u.id /\ v.userId = u.userId
       /\ \/ u \in kb4User'
          \/ \E c \in CallIds : KB4BatchStep(c) /\ u.userId \in KB4FeedIds(c)]_vars

\* the run started at time 2 has written a feed that names u2 and not u1, and
\* user u1, written by the run at time 1, is still there as that run left it
C21_Witness ==
  \E c \in CallIds :
    /\ calls[c].run["kb4"].pc = "log"
    /\ KB4FeedIds(c) = {"u2"}
    /\ now = 2
    /\ \E u \in kb4User : u.userId = "u1" /\ u.email = "a@x.com" /\ u.syncedAt = 1
    /\ \E v \in kb4User : v.userId = "u2" /\ v.syncedAt = 2

(***************************************************************************)
(* Properties of concurrent runs of one reconciler.                        *)
(***************************************************************************)
\* an alert without its id and sync timestamp
AlertContent(a) ==
  [hostname |-> a.hostname, detectedAt |-> a.detectedAt,
   fileSha256 |-> a.fileSha256, severity |-> a.severity,
   vtVerdict |-> a.vtVerdict, status |-> a.status,
   assignedTo |-> a.assignedTo, resolvedAt |-> a.resolvedAt]

\* a device without its id and sync timestamp
DeviceContent(d) ==
  [deviceName |-> d.deviceName, deviceIp |-> d.deviceIp,
   updatePriority |-> d.updatePriority,
   totalCveInstances |-> d.totalCveInstances, maxCvss |-> d.maxCvss]

\* what a single run on the sheet persists
SingleRunAlerts ==
  {AlertContent(a) : a \in EDRApplyBatch(EDRParse(EDRSheet), {}, {}, 1).table}

SingleRunDevices ==
  {DeviceContent(d) : d \in NCMUpsertAll(NCMParse(NCMSheet), {}, {}, 1).table}

DeviceKeysUnique ==
  \A d, e \in ncmDevice : DeviceNaturalKey(d) = DeviceNaturalKey(e) => d.id = e.id

\* two runs of the reconciler of source s, of two invocations, have succeeded
RanTwice(s) ==
  \E c, d \in CallIds :
    /\ c # d
    /\ calls[c].run[s].pc = "resolved" /\ calls[c].run[s].result.success
    /\ calls[d].run[s].pc = "resolved" /\ calls[d].run[s].result.success

\* C22: concurrent invocations of one reconciler are corruption-free - once
\* two runs of syncEDR (or of syncNCM) on the same sheet, a manual one and a
\* scheduled one interleaved in any way, have both returned, no two persisted
\* records share a natural key and the table holds the records a single run
\* persists, ids and sync timestamps aside.
C22_ConcurrentRunsClean ==
  /\ (Idle /\ RanTwice("edr"))
     => /\ AlertKeysUnique
        /\ Cardinality(edrAlert) = Cardinality(SingleRunAlerts)
        /\ {AlertContent(a) : a \in edrAlert} = SingleRunAlerts
  /\ (Idle /\ RanTwice("ncm"))
     => /\ DeviceKeysUnique
        /\ Cardinality(ncmDevice) = Cardinality(SingleRunDevices)
        /\ {DeviceContent(d) : d \in ncmDevice} = SingleRunDevices

(***************************************************************************)
(* Properties of the device table.                                         *)
(***************************************************************************)
\* the count that a run whose transaction commits in this step will report
\* is the number of devices persisted by that transaction
CountIsPersisted ==
  \A c \in CallIds :
    (calls[c].run["ncm"].pc = "tx" /\ calls'[c].run["ncm"].pc = "log")
    => calls'[c].run["ncm"].count = Cardinality(ncmDevice')

\* C23: device key uniqueness - after any sequence of syncNCM runs no two
\* persisted devices share the key (deviceName, deviceIp or ''), also for a
\* feed whose rows yield one key more than once, and the count a run reports
\* is the number of devices persisted when its transaction commits.
C23_DeviceKeysUnique == []DeviceKeysUnique /\ [][CountIsPersisted]_vars

(***************************************************************************)
(* Properties of the cache-invalidation signal.                            *)
(***************************************************************************)
\* the syncAll of call c returns its combined result in this step
SyncAllReturns(c) ==
  /\ calls[c].op = "all"
  /\ calls[c].pc = "running"
  /\ calls'[c].pc = "resolved"

\* this step emits exactly one signal, of the given scope
EmitsOnly(scope) == signals' = signals (+) SetToBag({scope})

\* C24: invalidation signalling - a syncAll emits one signal only, of scope
\* `all`, in the step in which it returns with all four reconcilers finished
\* (the steps in which its reconcilers end emit none), and a reconciler run
\* on its own that succeeds emits exactly one signal, of its own source, in
\* the step that has written its log entry.
C24_InvalidationSignalling ==
  [][/\ \A c \in CallIds :
          SyncAllReturns(c)
          => /\ EmitsOnly("all")
             /\ \A s \in Sources : Settled(calls[c].run[s])
     /\ \A c \in CallIds, s \in Sources :
          /\ (Ends(c, s) /\ calls[c].op = "all") => signals' = signals
          /\ (Ends(c, s) /\ calls[c].op # "all" /\ calls'[c].run[s].result.success)
             => /\ EmitsOnly(s)
                /\ syncLog' = logSync(s, "success", calls'[c].run[s].result.count, NULL)]_vars

(***************************************************************************)
(* Properties of the fan-out of a device row.                              *)
(***************************************************************************)
\* the number of non-empty trimmed names among the first i entries
KeptUpTo(names, i) == Cardinality({j \in 1..i : Trim(names[j]) # ""})

\* the text between the parentheses of an IP entry, NULL when it has none
Parenthesised(entry) ==
  CASE entry = "r1(10.0.0.1)" -> "10.0.0.1"
    [] entry = "r2(10.0.0.2)" -> "10.0.0.2"
    [] OTHER -> NULL

\* devices is the fan-out of row
FanOut(row, devices) ==
  LET names == SplitSemi(row.AllDeviceNames)
      ips == SplitSemi(row.AllDeviceIPs)
  IN /\ Len(devices) = KeptUpTo(names, Len(names))
     /\ \A i \in 1..Len(names) :
          Trim(names[i]) # "" =>
            LET d == devices[KeptUpTo(names, i)] IN
              /\ d.deviceName = Trim(names[i])
              /\ d.deviceIp = IF i <= Len(ips) THEN Parenthesised(ips[i]) ELSE NULL
              /\ d.updatePriority =
                   IF row.UpdatePriority = "" THEN "P3-Monitor" ELSE row.UpdatePriority
              /\ d.totalCveInstances = ParseIntOr0(row.TotalCVEInstances)
              /\ d.maxCvss = ParseDecimalOr0(row.MaxCVSS)

\* the run of syncNCM in call c has read the sheet <<row>> in this step
ReadsRow(c, row) ==
  /\ calls[c].run["ncm"].pc = "fetch"
  /\ calls'[c].run["ncm"].pc = "tx"
  /\ calls'[c].run["ncm"].valid = NCMParse(<<row>>)

\* C25: device fan-out - the devices that syncNCM derives from one row are,
\* in order, one per non-empty trimmed entry of AllDeviceNames split on "; ",
\* the device of entry i with the IP between the parentheses of entry i of
\* AllDeviceIPs (null when that entry is missing or has no parentheses), and
\* each with the row's priority (default P3-Monitor), counter and maxCvss.
C25_DeviceFanOut ==
  [][\A c \in CallIds, row \in NCMRawRows \cup NCMShortRows :
       ReadsRow(c, row) => FanOut(row, calls'[c].run["ncm"].valid)]_vars

\* a run has derived r1 with its IP and r2 with none from the row that has
\* two names and one IP entry, and has persisted them with the defaults
C25_Witness ==
  \E c \in CallIds :
    /\ calls[c].run["ncm"].pc = "log"
    /\ Len(calls[c].run["ncm"].valid) = 2
    /\ calls[c].run["ncm"].valid[2].deviceName = "r2"
    /\ calls[c].run["ncm"].valid[2].deviceIp = NULL
    /\ \E d \in ncmDevice :
         /\ d.deviceName = "r1" /\ d.deviceIp = "10.0.0.1"
         /\ d.updatePriority = "P3-Monitor" /\ d.maxCvss = [num |-> 15, den |-> 2]
    /\ \E d \in ncmDevice :
         /\ d.deviceName = "r2" /\ d.deviceIp = NULL
         /\ d.updatePriority = "P3-Monitor" /\ d.totalCveInstances = 3

(***************************************************************************)
(* Properties of processBatch.                                             *)
(***************************************************************************)
\* the transaction of a batch of source s in call c commits in this step
BatchCommitsAt(c, s) ==
  /\ calls[c].run[s].pc = "batch"
  /\ calls'[c].run[s].pc \in {"batch", "log"}
  /\ calls'[c].run[s] # calls[c].run[s]

\* the table of source s once the rows of `batch` are written, in order
WrittenBy(s, batch, r) ==
  CASE s = "kb4" -> KB4ApplyBatch(batch, kb4User, nextId).table
    [] s = "edr" -> EDRApplyBatch(batch, r.existingMap, edrAlert, nextId).table
    [] s = "hibp" -> HIBPApplyBatch(batch, hibpBreach, nextId).table

\* the table of source s after this step is `table`
TableBecomes(s, table) ==
  CASE s = "kb4" -> kb4User' = table
    [] s = "edr" -> edrAlert' = table
    [] s = "hibp" -> hibpBreach' = table

\* C26: strict batch ordering - a run of syncKB4, syncEDR or syncHIBP has one
\* batch transaction at a time: its first batch starts at row 0, a batch
\* starts only when all rows before it are committed, it writes the next
\* rows of the valid feed in order, at least 1 and at most BATCH_SIZE of them,
\* and the next batch starts right after them, if rows are left.
C26_StrictBatchOrdering ==
  [][\A c \in CallIds, s \in BatchSources :
       LET r == calls[c].run[s]
           q == calls'[c].run[s]
           n == Min(BATCH_SIZE, Len(r.valid) - r.i)
       IN /\ (r.pc # "batch" /\ q.pc = "batch") => (q.i = 0 /\ q.count = 0)
          /\ BatchCommitsAt(c, s)
             => /\ r.count = r.i
                /\ n >= 1
                /\ TableBecomes(s, WrittenBy(s, SubSeq(r.valid, r.i + 1, r.i + n), r))
                /\ q.count = r.count + n
                /\ q.valid = r.valid
                /\ q.pc = "batch" <=> r.i + n < Len(r.valid)
                /\ q.pc = "batch" => q.i = r.i + n]_vars

\* two batches of a syncKB4 run on the long sheet are committed (u1 and u2
\* as rows 1 to 2 * BATCH_SIZE give them) and the third is about to start
C26_Witness ==
  \E c \in CallIds :
    /\ calls[c].run["kb4"].pc = "batch"
    /\ calls[c].run["kb4"].i = 2 * BATCH_SIZE
    /\ calls[c].run["kb4"].count = 2 * BATCH_SIZE
    /\ Len(calls[c].run["kb4"].valid) > 2 * BATCH_SIZE
    /\ \E u \in kb4User : u.userId = "u1" /\ u.email = "a@x.com"
    /\ \E u \in kb4User : u.userId = "u2"

(***************************************************************************)
(* Properties of the in-progress flag.                                     *)
(***************************************************************************)
\* the flag is up only while a scheduled syncAll is in flight
FlagMeansInFlight == isSyncing => ScheduledInFlight # {}

\* lastSyncTime and lastSyncResult are both null or both set
LastSyncPaired == (lastSyncTime = NoDate) <=> (lastSyncResult = <<>>)

\* C27: the in-progress flag is always released - whenever the flag is up
\* it is eventually down again, whether the scheduled syncAll resolves or
\* rejects; the flag is up only while a scheduled syncAll is in flight, so
\* that no tick is skipped for a run that has ended; and lastSyncTime and
\* lastSyncResult are both null or both set.
C27_FlagReleased ==
  /\ isSyncing ~> ~isSyncing
  /\ [](FlagMeansInFlight /\ LastSyncPaired)

\* a scheduled syncAll has rejected (the write of a log entry failed) and
\* the flag is down
C27_Witness ==
  /\ ~isSyncing
  /\ jobConsole = "Sync failed:"
  /\ \E c \in CallIds : calls[c].trigger = "cron" /\ calls[c].pc = "rejected"

\* the calls of syncAll that have not returned, whoever made them
SyncAllInFlight == {c \in CallIds : calls[c].op = "all" /\ calls[c].pc = "running"}

\* a tick that fires while a syncAll is in flight starts no syncAll
TickStartsNoSecond ==
  (SyncAllInFlight # {} /\ jobConsole' # jobConsole /\ Len(calls') > Len(calls))
  => calls'[Len(calls')].trigger # "cron"

\* C28: the in-progress flag covers every sync - whenever a syncAll is in
\* flight, started by the scheduler or through manualSync.all (POST
\* /api/sync, the start-up sync), isSyncing is true, and a scheduled tick
\* that fires meanwhile starts no second syncAll.
C28_FlagCoversEverySync ==
  /\ [](SyncAllInFlight # {} => isSyncing)
  /\ [][TickStartsNoSecond]_vars

(***************************************************************************)
(* Properties of the cache.                                                *)
(***************************************************************************)
\* every sync and every request has returned: each sync that wrote has also
\* invalidated, and no request is about to write the cache
AllReturned == \A c \in CallIds : calls[c].pc # "running"

\* C29: no stale cache entry survives a sync - once every sync run has
\* returned (its invalidation has taken effect) and no request is under way,
\* a dashboard entry in the cache holds the value computed from the tables
\* as they are now, not from their state before a sync's writes.
C29_NoStaleEntry ==
  (AllReturned /\ dashboard # <<>>) => dashboard = DashboardData

\* C30: updateRiskWeights is idempotent - for any partial or full weight set
\* w and any current configuration, the weights stored by updateRiskWeights(w)
\* are the weights a second updateRiskWeights(w) right after it would store.
C30_UpdateIdempotent ==
  [][\A w \in PayloadsOver(SchemaWeights) :
       UpdateRiskWeights(w) =>
         updateRiskWeights(riskConfig'.weights, w) = riskConfig'.weights]_vars

====
